---- MODULE Spec2Model ----
(***************************************************************************)
(* Workflow automation engine of CRM Escort AI                             *)
(* (backend/app/workflow_engine.py): condition evaluation and the          *)
(* execution of one workflow run.                                          *)
(***************************************************************************)
EXTENDS Integers, Sequences, FiniteSets, TLC

(***************************************************************************)
(* Bounds of the model.                                                    *)
(***************************************************************************)
\* longest action list of a workflow
MaxActions == 2
\* longest child list of an all / any combinator
MaxChildren == 2
\* most pieces (texts and placeholders) of a template
MaxParts == 2

(***************************************************************************)
(* Values.  A Python value of a context or of a condition parameter is a   *)
(* record [k, s, n, m]: k is the kind, s the characters of a str, n the    *)
(* number of an int, m the items of a dict (a function from its keys).     *)
(* A str is the sequence of its characters.                                *)
(***************************************************************************)
NoItems == <<>>

Str(s) == [k |-> "str", s |-> s, n |-> 0, m |-> NoItems]

Num(n) == [k |-> "int", s |-> <<>>, n |-> n, m |-> NoItems]

\* Python's None
None == [k |-> "none", s |-> <<>>, n |-> 0, m |-> NoItems]

\* a key the mapping does not carry: what dict.get's default stands in for
Absent == [k |-> "absent", s |-> <<>>, n |-> 0, m |-> NoItems]

Dict(items) == [k |-> "dict", s |-> <<>>, n |-> 0, m |-> items]

\* a list: m is the sequence of its elements
List(items) == [k |-> "list", s |-> <<>>, n |-> 0, m |-> items]

\* bool(v)
IsTruthy(v) ==
    CASE v.k = "str" -> v.s # <<>>
      [] v.k = "int" -> v.n # 0
      [] v.k \in {"dict", "list"} -> DOMAIN v.m # {}
      [] OTHER -> FALSE

Digits == <<"0", "1", "2", "3", "4", "5", "6", "7", "8", "9">>

IsDigit(c) == \E d \in 1..10 : Digits[d] = c

DigitValue(c) == (CHOOSE d \in 1..10 : Digits[d] = c) - 1

\* str.lower() on one character of the model's alphabet
LowerChar(c) ==
    CASE c = "A" -> "a"
      [] c = "B" -> "b"
      [] c = "N" -> "n"
      [] OTHER -> c

Lower(s) == [j \in 1..Len(s) |-> LowerChar(s[j])]

RECURSIVE NatStr(_)
\* str(n) for an int n >= 0
NatStr(n) ==
    IF n < 10 THEN <<Digits[n + 1]>>
    ELSE NatStr(n \div 10) \o <<Digits[(n % 10) + 1]>>

RECURSIVE PyRepr(_)
\* repr(v), which str() of a dict applies to its keys and values; the dicts
\* whose repr the model takes have one key
PyRepr(v) ==
    CASE v.k = "str" -> <<"'">> \o v.s \o <<"'">>
      [] v.k = "int" -> IF v.n < 0 THEN <<"-">> \o NatStr(-v.n) ELSE NatStr(v.n)
      [] v.k = "none" -> <<"N", "o", "n", "e">>
      [] v.k = "dict" ->
             IF DOMAIN v.m = {} THEN <<"{", "}">>
             ELSE LET key == CHOOSE key \in DOMAIN v.m : TRUE
                  IN  <<"{", "'">> \o key \o <<"'", ":", " ">>
                          \o PyRepr(v.m[key]) \o <<"}">>

\* str(v)
PyStr(v) ==
    CASE v.k = "str" -> v.s
      [] v.k = "int" -> IF v.n < 0 THEN <<"-">> \o NatStr(-v.n) ELSE NatStr(v.n)
      [] v.k = "none" -> <<"N", "o", "n", "e">>
      [] v.k = "dict" -> PyRepr(v)

RECURSIVE DigitsValue(_)
DigitsValue(s) ==
    IF s = <<>> THEN 0
    ELSE 10 * DigitsValue(SubSeq(s, 1, Len(s) - 1)) + DigitValue(s[Len(s)])

\* the numerals of the model's alphabet that float() and int() accept:
\* an optional sign and one or more digits
IsNumeral(s) ==
    LET body == IF s # <<>> /\ s[1] = "-" THEN Tail(s) ELSE s
    IN  body # <<>> /\ \A j \in 1..Len(body) : IsDigit(body[j])

NumeralValue(s) ==
    IF s[1] = "-" THEN 0 - DigitsValue(Tail(s)) ELSE DigitsValue(s)

\* float(v) and int(v): [ok, n]; not ok is ValueError (a str that is no
\* numeral) or TypeError (None)
ToNumber(v) ==
    CASE v.k = "int" -> [ok |-> TRUE, n |-> v.n]
      [] v.k = "str" /\ IsNumeral(v.s) -> [ok |-> TRUE, n |-> NumeralValue(v.s)]
      [] OTHER -> [ok |-> FALSE, n |-> 0]

\* needle in hay
Contains(hay, needle) ==
    \E j \in 1..(Len(hay) - Len(needle) + 1) :
        SubSeq(hay, j, j + Len(needle) - 1) = needle

StartsWith(s, p) == Len(p) <= Len(s) /\ SubSeq(s, 1, Len(p)) = p

EndsWith(s, p) ==
    Len(p) <= Len(s) /\ SubSeq(s, Len(s) - Len(p) + 1, Len(s)) = p

\* re.compile fails (re.error) on an unterminated group; the alphabet has no ")"
RegexMalformed(p) == \E j \in 1..Len(p) : p[j] = "("

\* re.search(p, s, re.IGNORECASE) for a well-formed pattern of the alphabet,
\* which is a literal
RegexSearch(p, s) == Contains(Lower(s), Lower(p))

(***************************************************************************)
(* Contexts and dotted-path lookup.                                        *)
(***************************************************************************)
\* the keys the engine itself names, as str
K_content == <<"c", "o", "n", "t", "e", "n", "t">>

K_contact == <<"c", "o", "n", "t", "a", "c", "t">>

K_phone == <<"p", "h", "o", "n", "e">>

K_sender_phone == <<"s", "e", "n", "d", "e", "r", "_">> \o K_phone

\* a key no context of the model carries
K_nokey == <<"n", "o", "k", "e", "y">>

Dot == "."

\* a.b
Dotted(a, b) == a \o <<Dot>> \o b

RECURSIVE Split(_)
\* field.split(".")
Split(s) ==
    IF \A j \in 1..Len(s) : s[j] # Dot THEN <<s>>
    ELSE LET d == CHOOSE j \in 1..Len(s) :
                      s[j] = Dot /\ \A h \in 1..(j - 1) : s[h] # Dot
         IN  <<SubSeq(s, 1, d - 1)>> \o Split(SubSeq(s, d + 1, Len(s)))

RECURSIVE Walk(_, _)
\* the loop of _get_nested_value over the keys still to follow
Walk(current, keys) ==
    IF keys = <<>> THEN current
    ELSE IF current.k = "dict" /\ Head(keys) \in DOMAIN current.m
         THEN Walk(current.m[Head(keys)], Tail(keys))
         ELSE None

_get_nested_value(data, field) == Walk(data, Split(field))

(***************************************************************************)
(* Template substitution.                                                  *)
(***************************************************************************)
Open == "{"

Close == "}"

Space == " "

\* the first "}" of s at or after position j; Len(s) + 1 when there is none
FirstClose(s, j) ==
    IF \E h \in j..Len(s) : s[h] = Close
    THEN CHOOSE h \in j..Len(s) :
             s[h] = Close /\ \A g \in j..(h - 1) : s[g] # Close
    ELSE Len(s) + 1

\* the pattern {{([^}]+)}} matched at position i of s: the position of the
\* "}}" that ends the match, 0 when there is no match at i.  [^}]+ takes
\* every character up to the first "}", and no shorter run is followed by "}}".
MatchAt(s, i) ==
    IF i + 1 <= Len(s) /\ s[i] = Open /\ s[i + 1] = Open
    THEN LET j == FirstClose(s, i + 2)
         IN  IF j > i + 2 /\ j + 1 <= Len(s) /\ s[j + 1] = Close THEN j ELSE 0
    ELSE 0

RECURSIVE Strip(_)
\* str.strip()
Strip(s) ==
    IF s # <<>> /\ s[1] = Space THEN Strip(Tail(s))
    ELSE IF s # <<>> /\ s[Len(s)] = Space THEN Strip(SubSeq(s, 1, Len(s) - 1))
    ELSE s

\* seeded fault: an unresolved variable replaced by str(None)
ReplaceVarAlways(group, whole, context) ==
    PyStr(_get_nested_value(context, Strip(group)))

\* replace_var: group is match.group(1), whole is match.group(0)
replace_var(group, whole, context) ==
    LET value == _get_nested_value(context, Strip(group))
    IN  IF value.k # "none" THEN PyStr(value) ELSE whole

RECURSIVE ReSubRescan(_, _, _)
\* seeded fault: what replaces a match is scanned for placeholders in turn
ReSubRescan(s, i, context) ==
    IF i > Len(s) THEN <<>>
    ELSE LET j == MatchAt(s, i)
         IN  IF j = 0 THEN <<s[i]>> \o ReSubRescan(s, i + 1, context)
             ELSE LET whole == SubSeq(s, i, j + 1)
                      by == replace_var(SubSeq(s, i + 2, j - 1), whole, context)
                  IN  (IF by = whole THEN by ELSE ReSubRescan(by, 1, context))
                          \o ReSubRescan(s, j + 2, context)

RECURSIVE ReSub(_, _, _)
\* re.sub(pattern, replace_var, s) from position i on: the matches are taken
\* left to right and do not overlap; what replaces a match is not scanned
ReSub(s, i, context) ==
    IF i > Len(s) THEN <<>>
    ELSE LET j == MatchAt(s, i)
         IN  IF j = 0 THEN <<s[i]>> \o ReSub(s, i + 1, context)
             ELSE replace_var(SubSeq(s, i + 2, j - 1), SubSeq(s, i, j + 1), context)
                      \o ReSub(s, j + 2, context)

RECURSIVE substitute_templates(_, _)
\* substitute_templates(obj)
substitute_templates(obj, context) ==
    CASE obj.k = "str" -> Str(ReSub(obj.s, 1, context))
      [] obj.k \in {"dict", "list"} ->
             [obj EXCEPT !.m = [key \in DOMAIN obj.m |->
                                   substitute_templates(obj.m[key], context)]]
      [] OTHER -> obj

(***************************************************************************)
(* Conditions.  A condition is a record: mapping says whether it is a dict *)
(* at all; has_all / has_any say whether it carries the keys "all" and     *)
(* "any", whose lists are all and any; type is the value of "type" as a    *)
(* token ("absent" when the key is missing); field, value, start_hour and  *)
(* end_hour are values, Absent when the key is missing.                    *)
(***************************************************************************)
Leaf(type, field, value) ==
    [mapping |-> TRUE, has_all |-> FALSE, all |-> <<>>, has_any |-> FALSE,
     any |-> <<>>, type |-> type, field |-> field, value |-> value,
     start_hour |-> Absent, end_hour |-> Absent]

TimeRange(field, start_hour, end_hour) ==
    [Leaf("time_range", field, Absent) EXCEPT
        !.start_hour = start_hour, !.end_hour = end_hour]

\* {"all": children}
AllCond(children) ==
    [Leaf("absent", Absent, Absent) EXCEPT !.has_all = TRUE, !.all = children]

\* {"any": children}
AnyCond(children) ==
    [Leaf("absent", Absent, Absent) EXCEPT !.has_any = TRUE, !.any = children]

\* {}
EmptyConditions == Leaf("absent", Absent, Absent)

\* a condition that is no dict (a number)
NotADict == [EmptyConditions EXCEPT !.mapping = FALSE]

\* dict.get(key, default) on a value that is Absent when the key is missing
GetOr(v, default) == IF v.k = "absent" THEN default ELSE v

DefaultStartHour == 0

DefaultEndHour == 23

\* _evaluate_single_condition, lines 86-120, once the field is resolved:
\* "true", "false", or "raise" for an exception the function lets through
ApplyCondition(condition, condition_type, field_value, value, hour) ==
    LET field_str == Lower(PyStr(field_value))
        value_str == Lower(PyStr(value))
    IN  CASE condition_type = "contains" ->
                 IF Contains(field_str, value_str) THEN "true" ELSE "false"
          [] condition_type = "equals" ->
                 IF field_str = value_str THEN "true" ELSE "false"
          [] condition_type = "starts_with" ->
                 IF StartsWith(field_str, value_str) THEN "true" ELSE "false"
          [] condition_type = "ends_with" ->
                 IF EndsWith(field_str, value_str) THEN "true" ELSE "false"
          [] condition_type = "regex" ->
                 \* re.search of a pattern that is no str: TypeError, which
                 \* `except re.error` does not catch
                 IF value.k # "str" THEN "raise"
                 ELSE IF RegexMalformed(value.s) THEN "false"
                 ELSE IF RegexSearch(value.s, field_str) THEN "true"
                 ELSE "false"
          [] condition_type = "greater_than" ->
                 IF ToNumber(field_value).ok /\ ToNumber(value).ok
                    /\ ToNumber(field_value).n > ToNumber(value).n
                 THEN "true" ELSE "false"
          [] condition_type = "less_than" ->
                 IF ToNumber(field_value).ok /\ ToNumber(value).ok
                    /\ ToNumber(field_value).n < ToNumber(value).n
                 THEN "true" ELSE "false"
          [] condition_type = "time_range" ->
                 LET start_hour == ToNumber(GetOr(condition.start_hour,
                                                  Num(DefaultStartHour)))
                     end_hour == ToNumber(GetOr(condition.end_hour,
                                                Num(DefaultEndHour)))
                 IN  IF start_hour.ok /\ end_hour.ok
                        /\ start_hour.n <= hour /\ hour <= end_hour.n
                     THEN "true" ELSE "false"
          [] OTHER -> "false"

\* seeded fault: time_range, which reads no field, decided before the field
\* is looked up
EvaluateSingleTimeRangeFirst(condition, context, hour) ==
    IF ~condition.mapping THEN "raise"
    ELSE LET condition_type ==
                 IF condition.type = "absent" THEN "contains" ELSE condition.type
             field == GetOr(condition.field, Str(K_content))
             value == GetOr(condition.value, Str(<<>>))
         IN  IF condition_type = "time_range"
             THEN ApplyCondition(condition, condition_type, Str(<<>>), value, hour)
             ELSE IF field.k # "str" THEN "raise"
             ELSE LET field_value == _get_nested_value(context, field.s)
                  IN  IF field_value.k = "none" THEN "false"
                      ELSE ApplyCondition(condition, condition_type,
                                          field_value, value, hour)

\* _evaluate_single_condition
_evaluate_single_condition(condition, context, hour) ==
    IF ~condition.mapping THEN "raise"                 \* no .get: AttributeError
    ELSE LET condition_type ==
                 IF condition.type = "absent" THEN "contains" ELSE condition.type
             field == GetOr(condition.field, Str(K_content))
             value == GetOr(condition.value, Str(<<>>))
         IN  IF field.k # "str" THEN "raise"           \* no .split: AttributeError
             ELSE LET field_value == _get_nested_value(context, field.s)
                  IN  IF field_value.k = "none" THEN "false"
                      ELSE ApplyCondition(condition, condition_type,
                                          field_value, value, hour)

RECURSIVE AllOf(_, _, _)
\* all(... for cond in conds): stops at the first false, an exception goes through
AllOf(conds, context, hour) ==
    IF conds = <<>> THEN "true"
    ELSE LET r == _evaluate_single_condition(Head(conds), context, hour)
         IN  IF r = "true" THEN AllOf(Tail(conds), context, hour) ELSE r

RECURSIVE AnyOf(_, _, _)
\* any(... for cond in conds): stops at the first true, an exception goes through
AnyOf(conds, context, hour) ==
    IF conds = <<>> THEN "false"
    ELSE LET r == _evaluate_single_condition(Head(conds), context, hour)
         IN  IF r = "false" THEN AnyOf(Tail(conds), context, hour) ELSE r

\* seeded fault: "any" tested before "all"
EvaluateTryAnyFirst(conditions, context, hour) ==
    IF ~conditions.mapping THEN "raise"
    ELSE IF conditions.has_any THEN AnyOf(conditions.any, context, hour)
    ELSE IF conditions.has_all THEN AllOf(conditions.all, context, hour)
    ELSE _evaluate_single_condition(conditions, context, hour)

\* the try block of evaluate_conditions
EvaluateTry(conditions, context, hour) ==
    IF ~conditions.mapping THEN "raise"           \* "all" in 5: TypeError
    ELSE IF conditions.has_all THEN AllOf(conditions.all, context, hour)
    ELSE IF conditions.has_any THEN AnyOf(conditions.any, context, hour)
    ELSE _evaluate_single_condition(conditions, context, hour)

\* evaluate_conditions: [raised, value]; `except Exception` returns False
evaluate_conditions(conditions, context, hour) ==
    [raised |-> FALSE, value |-> EvaluateTry(conditions, context, hour) = "true"]

(***************************************************************************)
(* State.                                                                  *)
(***************************************************************************)
VARIABLES
    conditions,          \* evaluate_conditions called on its own: its argument
    eval_result,         \* ... and what the call gave: [done, raised, value]
    parts,               \* the pieces the text of a template is written from
    template,            \* substitute_templates called on its own: its argument
    rendered,            \* ... and what the call gave: [done, value]
    context,             \* the context of the call or of the run
    hour,                \* datetime.now().hour
    workflow,            \* the workflow of the run
    db_session,          \* whether the run was given a database session
    pc,                  \* where the run of execute_workflow stands
    idx,                 \* i of the loop over the actions (0-based)
    execution_log,       \* the run's execution_log
    outcome,             \* "not_called", "running", "returned", or "raised"
    evaluations,         \* calls of evaluate_conditions made by the run
    handler_calls,       \* indices of the actions whose handler was invoked
    collaborator_calls,  \* indices of the actions that reached a collaborator
    in_handler,          \* indices of the actions whose handler has not ended
    hows,                \* how the collaborator calls of the run ended
    given,               \* the workflow and the context as the caller passed them
    sent,                \* the calls the collaborators received, of every run
    stored,              \* the workflow as the workflows table holds it
    run,                 \* the run the event loop is executing
    parked,              \* the locals of the runs the event loop is not executing
    workflows_table,     \* the rows of the workflows table, by id
    workflow_executions, \* the rows of the workflow_executions table
    request,             \* the request the workflows router served last
    response,            \* ... and the status it was answered with
    clock,               \* datetime.utcnow() of the router, in requests served
    message,             \* the row of the message the worker is given
    records,             \* the committed contacts, locations, events and tasks
    extractions,         \* calls of extract_message_data made for the message
    invocations          \* the invocations of process_message, each with its session

vars == <<conditions, eval_result, parts, template, rendered, context, hour, workflow, db_session, pc, idx,
          execution_log, outcome, evaluations, handler_calls,
          collaborator_calls, in_handler, hows, given, sent, stored, run, parked,
          workflows_table, workflow_executions, request, response, clock,
          message, records, extractions, invocations>>

\* the state of the workflows router, and of the worker
routerVars == <<workflows_table, workflow_executions, request, response, clock>>

workerVars == <<message, records, extractions, invocations>>

\* no request served yet
NoRequest == [op |-> "none", user |-> "none", workflow_id |-> 0, data |-> <<>>]

NoResponse == [status |-> 0, body |-> <<>>]

\* the workflows router before any request: empty tables
RouterIdle ==
    /\ workflows_table = <<>>
    /\ workflow_executions = <<>>
    /\ request = NoRequest
    /\ response = NoResponse
    /\ clock = 0

\* the row of a message as the webhook stores it (sms_handler.py lines
\* 124-134): processed=False, nothing extracted
NewMessage == [processed |-> FALSE, has_extracted_data |-> FALSE, contact_id |-> <<>>]

\* the worker before any task was delivered
WorkerIdle ==
    /\ message = NewMessage
    /\ records = {}
    /\ extractions = 0
    /\ invocations = <<>>

(***************************************************************************)
(* Inputs of the condition evaluator.                                      *)
(***************************************************************************)
S_ab == <<"a", "b">>

EvalContexts ==
    { Dict((K_content :> Str(<<"A", "B", "1">>))
           @@ (K_contact :> Dict(K_phone :> Str(<<"1", "2">>)))),
      Dict(K_content :> Num(5)),
      Dict(K_content :> None),
      Dict(K_contact :> Dict(K_phone :> Str(S_ab))) }

Hours == {3, 12}

ConditionTypes ==
    {"contains", "equals", "starts_with", "ends_with", "regex",
     "greater_than", "less_than", "time_range"}

FieldPool ==
    { Absent, Str(K_content), Str(Dotted(K_contact, K_phone)),
      Str(Dotted(K_content, K_phone)), Str(K_nokey),
      Str(Dotted(K_contact, K_nokey)), Num(1) }

ValuePool ==
    { Absent, Str(S_ab), Str(<<"A">>), Str(<<"1", "2">>), Str(<<"3">>),
      Str(<<"(">>), Num(5), Num(7), None }

LeafPool ==
    { Leaf(t, f, v) : t \in ConditionTypes \cup {"absent", "bogus"},
                      f \in FieldPool, v \in ValuePool }

TimeRangePool ==
    { TimeRange(f, s, e) : f \in FieldPool,
                           s \in {Absent, Num(9), Str(<<"9">>), Str(S_ab)},
                           e \in {Absent, Num(11), None} }

\* the children of the combinators of the model: leaves that hold, fail, do
\* not resolve or raise, and combinators
ChildPool ==
    { Leaf("contains", Absent, Str(<<"A">>)),
      Leaf("equals", Str(Dotted(K_contact, K_phone)), Str(S_ab)),
      Leaf("regex", Absent, Str(<<"(">>)),
      Leaf("greater_than", Str(K_nokey), Num(5)),
      NotADict,
      AllCond(<<>>), AnyCond(<<>>),
      AnyCond(<<Leaf("contains", Absent, Str(<<"A">>))>>),
      AllCond(<<Leaf("equals", Absent, Str(<<"3">>))>>) }

ChildLists == UNION { [1..n -> ChildPool] : n \in 0..MaxChildren }

\* a dict with "all", with or without "any" and leaf keys beside it
WithAll ==
    { [c EXCEPT !.has_all = TRUE, !.all = l] :
        l \in ChildLists,
        c \in { EmptyConditions, AnyCond(<<>>),
                AnyCond(<<Leaf("contains", Absent, Str(<<"A">>))>>),
                Leaf("equals", Absent, Str(<<"3">>)) } }

\* a dict with "any" and no "all", with or without leaf keys beside it
WithAny ==
    { [c EXCEPT !.has_any = TRUE, !.any = l] :
        l \in ChildLists,
        c \in { EmptyConditions, Leaf("contains", Absent, Str(<<"A">>)) } }

EvalConditions == LeafPool \cup TimeRangePool \cup WithAll \cup WithAny \cup {NotADict}

NoResult == [done |-> FALSE, raised |-> FALSE, value |-> FALSE]

NotRendered == [done |-> FALSE, value |-> None]

NoWorkflow ==
    [enabled |-> "absent", has_conditions |-> FALSE,
     conditions |-> EmptyConditions, actions |-> <<>>]



(***************************************************************************)
(* Workflows, actions, exceptions, execution-log entries.                  *)
(***************************************************************************)
\* class WorkflowAction
WorkflowAction ==
    {"send_sms", "send_email", "create_contact", "create_event",
     "create_task", "update_contact", "webhook", "delay"}

\* An action entry of a workflow: mapping says whether it is a dict; type is
\* the value of "type" ("absent": no such key); continue_on_error is "absent",
\* "false" or "true"; to_number and message are the send_sms parameters,
\* delay_seconds that of delay, start_time and end_time those of create_event
\* (the members of event_data); each is a value, Absent when the key is
\* missing.
Action(type, continue_on_error, to_number) ==
    [mapping |-> TRUE, type |-> type, continue_on_error |-> continue_on_error,
     to_number |-> to_number, message |-> Absent, delay_seconds |-> Absent,
     start_time |-> Absent, end_time |-> Absent]

\* an action entry that is no dict
NotAnAction == [Action("absent", "absent", Absent) EXCEPT !.mapping = FALSE]

\* an exception: its class, its message, and what the message names
Exc(cls, msg, arg) == [cls |-> cls, msg |-> msg, arg |-> arg]

NoExc == Exc("none", "", "")

\* the classes of the exceptions of the model, all derived from Exception
ExceptionClasses ==
    {"ValueError", "AttributeError", "TypeError", "HTTPException", "ClientError"}

\* seeded fault: `except ValueError` in place of `except Exception`
ExceptValueErrorOnly(e) == e.cls = "ValueError"

\* `except Exception as e`
ExceptException(e) == e.cls \in ExceptionClasses

\* seeded fault: the enabled test inverted
DisabledInverted(w) == w.enabled # "false"

\* `not workflow.get("enabled", True)`
Disabled(w) == w.enabled = "false"

\* seeded fault: `conditions is not None` in place of bool(conditions)
TruthyWhenPresent(w) == w.has_conditions

\* bool(conditions) for conditions = workflow.get("conditions", {})
Truthy(w) ==
    /\ w.has_conditions
    /\ w.conditions # EmptyConditions

\* seeded fault: the test of continue_on_error inverted
StopOnErrorInverted(action) == action.continue_on_error = "true"

\* seeded fault: continue_on_error ignored, every failure ends the run
StopOnErrorAlways(action) == TRUE

\* `not action.get("continue_on_error", False)`
StopOnError(action) == action.continue_on_error # "true"

\* what a handler returns: tag names the dict, n is its number
\* (delayed_seconds)
Result(tag, n) == [tag |-> tag, n |-> n]

\* nothing returned
NoReturn == Result("", 0)

\* seeded fault: entries numbered from 1
SuccessEntryOneBased(i, action, result) ==
    [action_index |-> i + 1, action_type |-> action.type, success |-> TRUE,
     result |-> result, error |-> NoExc]

\* the entry appended for action i that returned
SuccessEntry(i, action, result) ==
    [action_index |-> i, action_type |-> action.type, success |-> TRUE,
     result |-> result, error |-> NoExc]

\* the entry appended for action i that raised e
FailureEntry(i, action, e) ==
    [action_index |-> i, action_type |-> action.type, success |-> FALSE,
     result |-> NoReturn, error |-> e]

\* execution_log["error"] values: what the message is, the index it names,
\* the exception whose str() it carries
LogError(msg, i, e) == [msg |-> msg, index |-> i, exc |-> e]

NoError == LogError("", -1, NoExc)

\* before execute_workflow builds it
NoLog == [created |-> FALSE, success |-> TRUE, error |-> NoError,
          actions_executed |-> <<>>, completed_at |-> FALSE]

\* execution_log as lines 137-143 build it (workflow_id and started_at set)
NewLog == [NoLog EXCEPT !.created = TRUE]

\* context.get("sender_phone") or context.get("contact", {}).get("phone"):
\* [raised, v]; raised when context["contact"] is no dict (AttributeError)
ContextPhone(ctx) ==
    LET sender == IF K_sender_phone \in DOMAIN ctx.m
                  THEN ctx.m[K_sender_phone] ELSE None
        contact == IF K_contact \in DOMAIN ctx.m THEN ctx.m[K_contact]
                   ELSE Dict(NoItems)
    IN  IF IsTruthy(sender) THEN [raised |-> FALSE, v |-> sender]
        ELSE IF contact.k # "dict" THEN [raised |-> TRUE, v |-> None]
        ELSE [raised |-> FALSE,
              v |-> IF K_phone \in DOMAIN contact.m THEN contact.m[K_phone]
                    ELSE None]

\* seeded fault: the context asked before the action's own to_number
SmsDestinationContextFirst(action, ctx) ==
    IF ~ContextPhone(ctx).raised /\ IsTruthy(ContextPhone(ctx).v)
    THEN ContextPhone(ctx)
    ELSE [raised |-> FALSE, v |-> GetOr(action.to_number, None)]

\* _action_send_sms, lines 244-249: the destination
SmsDestination(action, ctx) ==
    LET to_number == GetOr(action.to_number, None)
    IN  IF IsTruthy(to_number) THEN [raised |-> FALSE, v |-> to_number]
        ELSE ContextPhone(ctx)

CreateActions == {"create_contact", "create_event", "create_task"}

\* timedelta(hours=1)
DefaultEventHours == 1

\* action.get("delay_seconds", 1)
DefaultDelaySeconds == 1

\* datetime.fromisoformat(v), a time being the number of its hour and its
\* ISO text the numeral: [ok, n]; not ok is ValueError or TypeError
fromisoformat(v) ==
    IF v.k = "str" THEN ToNumber(v) ELSE [ok |-> FALSE, n |-> 0]

\* start_time and end_time of the Event of lines 307-314, utcnow() being now
EventTimes(action, now) ==
    [start |-> IF IsTruthy(action.start_time) THEN fromisoformat(action.start_time)
               ELSE [ok |-> TRUE, n |-> now],
     end |-> IF IsTruthy(action.end_time) THEN fromisoformat(action.end_time)
             ELSE [ok |-> TRUE, n |-> now + DefaultEventHours]]

\* a call of a collaborator: the run and the action that made it, the
\* destination of an SMS, the times of an Event, the seconds of a sleep
Call(i, type, to, start_time, end_time, seconds) ==
    [run |-> run, index |-> i, type |-> type, to |-> to,
     start_time |-> start_time, end_time |-> end_time, seconds |-> seconds]

NoCall == [run |-> 0, index |-> -1, type |-> "", to |-> None,
           start_time |-> 0, end_time |-> 0, seconds |-> 0]

\* CheckConstraint('end_time > start_time') of the events table
ValidEventTimes(call) == call.end_time > call.start_time

\* What a collaborator call can end in.  send_sms of sms_handler is a route
\* handler taking (sms_data, db): called with (to_number, message) it raises
\* whether or not Twilio is configured.  EmailHandler.send_email turns every
\* failure into a returned dict.  A commit that breaks a constraint raises.
CollaboratorOutcomes(type) ==
    CASE type = "send_sms" -> {"raise"}
      [] type = "send_email" -> {"return", "return_failed"}
      [] type = "delay" -> {"return"}
      [] OTHER -> {"return", "raise"}

\* the exception a failing collaborator raises
CollaboratorError(type) ==
    CASE type = "send_sms" -> Exc("HTTPException", "Failed to send SMS", "")
      [] type = "webhook" -> Exc("ClientError", "request failed", "")
      [] OTHER -> Exc("ValueError", "commit failed", type)

\* contact.contact_id, event.event_id, task.task_id: the models name their
\* key id, so reading the attribute raises
NoIdAttribute(type) ==
    Exc("AttributeError", "object has no attribute",
        CASE type = "create_contact" -> "contact_id"
          [] type = "create_event" -> "event_id"
          [] OTHER -> "task_id")

\* the result a handler returns for the action it was given
HandlerResult(action, how) ==
    CASE action.type = "send_email" ->
             Result(IF how = "return" THEN "sent" ELSE "not_sent", 0)
      [] action.type = "update_contact" -> Result("placeholder", 0)
      [] action.type = "delay" ->
             Result("delayed", GetOr(action.delay_seconds, Num(DefaultDelaySeconds)).n)
      [] OTHER -> Result("response", 0)

\* the parameters of an action that substitute_templates goes through
Templated(action, ctx) ==
    [action EXCEPT !.to_number = substitute_templates(@, ctx),
                   !.message = substitute_templates(@, ctx),
                   !.delay_seconds = substitute_templates(@, ctx),
                   !.start_time = substitute_templates(@, ctx),
                   !.end_time = substitute_templates(@, ctx)]

\* seeded fault: the templates substituted in the action itself
ApplyTemplatesInPlace(action, ctx) ==
    [processed |-> Templated(action, ctx), action |-> Templated(action, ctx)]

\* _apply_templates: the processed action it returns, and the action it was
\* given as the call leaves it (the work is done on action.copy(), and
\* substitute_templates builds new dicts and lists)
_apply_templates(action, ctx) ==
    [processed |-> Templated(action, ctx), action |-> action]

\* a handler up to its first await or to its end, for the processed action:
\* [kind, e, result, call]
HandlerBody(i, action, ctx, db) ==
    LET raise(e) == [kind |-> "raise", e |-> e, result |-> NoReturn, call |-> NoCall]
        await(call) == [kind |-> "await", e |-> NoExc, result |-> NoReturn, call |-> call]
        plain == Call(i, action.type, None, 0, 0, 0)
    IN  CASE action.type = "send_sms" ->
                 LET to_number == SmsDestination(action, ctx)
                 IN  IF to_number.raised
                     THEN raise(Exc("AttributeError", "object has no attribute", "get"))
                     ELSE IF ~IsTruthy(to_number.v)
                     THEN raise(Exc("ValueError", "No phone number provided for SMS", ""))
                     ELSE await([plain EXCEPT !.to = to_number.v])
          [] action.type = "create_event" ->
                 LET t == EventTimes(action, hour)
                 IN  IF ~t.start.ok \/ ~t.end.ok
                     THEN raise(Exc("ValueError", "Invalid isoformat string", ""))
                     ELSE IF ~db THEN raise(NoIdAttribute(action.type))
                     ELSE await([plain EXCEPT !.start_time = t.start.n,
                                              !.end_time = t.end.n])
          [] action.type \in {"create_contact", "create_task"} ->
                 IF ~db THEN raise(NoIdAttribute(action.type)) ELSE await(plain)
          [] action.type = "update_contact" ->
                 [kind |-> "return", e |-> NoExc, call |-> NoCall,
                  result |-> HandlerResult(action, "return")]
          [] action.type = "delay" ->
                 LET delay_seconds == GetOr(action.delay_seconds,
                                            Num(DefaultDelaySeconds))
                 IN  IF delay_seconds.k # "int"
                     THEN raise(Exc("TypeError", "not supported between instances", ""))
                     ELSE await([plain EXCEPT !.seconds = delay_seconds.n])
          [] OTHER -> await(plain)

\* seeded fault: a call that an earlier run already made for an equal action
\* is not made again
HandlerStartOnce(i, action, ctx, db) ==
    LET h == HandlerBody(i, action, ctx, db)
    IN  IF h.kind = "await"
           /\ \E p \in DOMAIN sent : [sent[p] EXCEPT !.run = run] = h.call
        THEN [kind |-> "return", e |-> NoExc, call |-> NoCall,
              result |-> Result("response", 0)]
        ELSE h

\* lines 203-211: the handler the registry holds for the type is called
HandlerStart(i, action, ctx, db) == HandlerBody(i, action, ctx, db)

\* seeded fault: no test of the type; an action without a handler returns
\* nothing and counts as done
ExecuteActionNoTypeCheck(i, action, ctx, db) ==
    IF ~action.mapping
    THEN [kind |-> "raise", invoked |-> FALSE, result |-> NoReturn, call |-> NoCall,
          e |-> Exc("AttributeError", "object has no attribute", "get"),
          action |-> action]
    ELSE IF action.type \notin WorkflowAction
    THEN [kind |-> "return", invoked |-> FALSE, result |-> NoReturn, call |-> NoCall,
          e |-> NoExc, action |-> action]
    ELSE LET t == _apply_templates(action, ctx)
             h == HandlerStart(i, t.processed, ctx, db)
         IN  [kind |-> h.kind, invoked |-> TRUE, result |-> h.result,
              call |-> h.call, e |-> h.e, action |-> t.action]

\* _execute_action for action i up to the handler's first await or to its
\* end: [kind, invoked, e, result, call, action].  kind "raise": e is raised;
\* "return": result is returned; "await": the handler waits for its
\* collaborator, called with call.  invoked: the handler was called.  action:
\* the action entry as the call leaves it.
ExecuteAction(i, action, ctx, db) ==
    IF ~action.mapping
    THEN [kind |-> "raise", invoked |-> FALSE, result |-> NoReturn, call |-> NoCall,
          e |-> Exc("AttributeError", "object has no attribute", "get"),
          action |-> action]
    ELSE IF action.type \notin WorkflowAction
    THEN [kind |-> "raise", invoked |-> FALSE, result |-> NoReturn, call |-> NoCall,
          e |-> Exc("ValueError", "Unknown action type", action.type),
          action |-> action]
    ELSE LET t == _apply_templates(action, ctx)
             h == HandlerStart(i, t.processed, ctx, db)
         IN  [kind |-> h.kind, invoked |-> TRUE, result |-> h.result,
              call |-> h.call, e |-> h.e, action |-> t.action]

\* the rest of the handler of the processed action once its collaborator,
\* called with call, ended in `how`
ResumeAction(action, call, how) ==
    IF how = "raise" \/ (action.type = "create_event" /\ ~ValidEventTimes(call))
    THEN [kind |-> "raise", result |-> NoReturn, e |-> CollaboratorError(action.type)]
    ELSE IF action.type \in CreateActions
    THEN [kind |-> "raise", result |-> NoReturn, e |-> NoIdAttribute(action.type)]
    ELSE [kind |-> "return", e |-> NoExc, result |-> HandlerResult(action, how)]

(***************************************************************************)
(* execute_workflow.                                                       *)
(***************************************************************************)
\* lines 187-191: the outer handler; an exception it does not catch reaches
\* the caller
OuterExcept(log, e) ==
    IF ExceptException(e)
    THEN [log |-> [log EXCEPT !.success = FALSE,
                              !.error = LogError("", -1, e),
                              !.completed_at = TRUE],
          outcome |-> "returned", pc |-> "done", idx |-> -1]
    ELSE [log |-> log, outcome |-> "raised", pc |-> "done", idx |-> -1]

\* seeded fault: the actions read from the workflows table at every step
RunActionsStored ==
    IF Len(stored.actions) > idx /\ idx >= 0 THEN stored.actions ELSE workflow.actions

\* workflow.get("actions", []) of line 161: the list of the dict the run was
\* called with
RunActions == workflow.actions

\* seeded fault: no break after a failure that is not tolerated
LoopToWithoutBreak(log, next, stop) ==
    IF next >= Len(RunActions)
    THEN [log |-> [log EXCEPT !.completed_at = TRUE],
          outcome |-> "returned", pc |-> "done", idx |-> next]
    ELSE [log |-> log, outcome |-> "running", pc |-> "loop", idx |-> next]

\* the loop goes on with action `next`, or ends (line 185 and the return)
LoopTo(log, next, stop) ==
    IF stop \/ next >= Len(RunActions)
    THEN [log |-> [log EXCEPT !.completed_at = TRUE],
          outcome |-> "returned", pc |-> "done", idx |-> next]
    ELSE [log |-> log, outcome |-> "running", pc |-> "loop", idx |-> next]

\* lines 162-183 once action i returned or raised (r): the run's next
\* [log, outcome, pc, idx]
AfterAction(log, i, action, r) ==
    IF r.kind = "return"
    THEN LoopTo([log EXCEPT !.actions_executed =
                     Append(@, SuccessEntry(i, action, r.result))], i + 1, FALSE)
    ELSE IF ~ExceptException(r.e) THEN OuterExcept(log, r.e)
    ELSE IF ~action.mapping
    \* action.get("type") raises inside the handler of line 170
    THEN OuterExcept(log, Exc("AttributeError", "object has no attribute", "get"))
    ELSE LET logged == [log EXCEPT !.actions_executed =
                            Append(@, FailureEntry(i, action, r.e))]
         IN  IF StopOnError(action)
             THEN LoopTo([logged EXCEPT !.success = FALSE,
                                        !.error = LogError("Action failed", i, r.e)],
                         i + 1, TRUE)
             ELSE LoopTo(logged, i + 1, FALSE)

\* the action entries of the model's workflows: every action type, an
\* unknown type and a missing type, with continue_on_error absent, false and
\* true, and an entry that is no dict
ActionPool ==
    { Action("send_sms", "absent", Absent),
      Action("send_sms", "true", Str(<<"1", "2">>)),
      Action("send_email", "absent", Absent),
      Action("create_contact", "false", Absent),
      Action("create_event", "true", Absent),
      Action("create_task", "absent", Absent),
      Action("update_contact", "absent", Absent),
      Action("webhook", "true", Absent),
      Action("webhook", "false", Absent),
      Action("delay", "absent", Absent),
      Action("bogus", "absent", Absent),
      Action("bogus", "true", Absent),
      Action("absent", "false", Absent),
      NotAnAction }

ActionLists == UNION { [1..n -> ActionPool] : n \in 0..MaxActions }

\* the conditions of the model's workflows: none, {}, a leaf that holds in
\* every context of RunContexts, one that fails, and a number
RunConditions ==
    { [has_conditions |-> FALSE, conditions |-> EmptyConditions] }
    \cup { [has_conditions |-> TRUE, conditions |-> c] :
             c \in { EmptyConditions,
                     Leaf("contains", Absent, Str(<<"A">>)),
                     Leaf("equals", Absent, Str(<<"3">>)),
                     NotADict } }

Workflows ==
    { [enabled |-> e, has_conditions |-> c.has_conditions,
       conditions |-> c.conditions, actions |-> a] :
        e \in {"absent", "true", "false"}, c \in RunConditions, a \in ActionLists }

RunContexts ==
    { Dict((K_content :> Str(<<"A", "B", "1">>))
           @@ (K_sender_phone :> Str(<<"1", "2">>))),
      Dict(K_content :> Str(<<"A", "B", "1">>)) }

Init ==
    /\ workflow \in Workflows
    /\ context \in RunContexts
    /\ db_session \in BOOLEAN
    /\ hour \in {12}
    /\ conditions = EmptyConditions
    /\ eval_result = NoResult
    /\ parts = <<>>
    /\ template = None
    /\ rendered = NotRendered
    /\ pc = "idle"
    /\ idx = -1
    /\ execution_log = NoLog
    /\ outcome = "not_called"
    /\ evaluations = 0
    /\ handler_calls = <<>>
    /\ collaborator_calls = <<>>
    /\ in_handler = {}
    /\ hows = <<>>
    /\ given = [workflow |-> workflow, context |-> context]
    /\ sent = <<>>
    /\ stored = workflow
    /\ run = 1
    /\ parked = <<>>
    /\ RouterIdle
    /\ WorkerIdle

\* lines 137-150: the log is built and the enabled flag tested
StartRun ==
    /\ pc = "idle"
    /\ IF Disabled(workflow)
       THEN /\ execution_log' =
                   [NewLog EXCEPT !.success = FALSE,
                                  !.error = LogError("Workflow is disabled", -1, NoExc)]
            /\ outcome' = "returned"
            /\ pc' = "done"
       ELSE /\ execution_log' = NewLog
            /\ outcome' = "running"
            /\ pc' = "conditions"
    /\ UNCHANGED <<conditions, eval_result, parts, template, rendered,
                   context, hour, workflow, db_session,
                   idx, evaluations, handler_calls, collaborator_calls, in_handler,
                   hows, given, sent, stored, run, parked>>
    /\ UNCHANGED <<routerVars, workerVars>>

\* lines 153-160: the conditions are evaluated when there are any; the run
\* ends, or reaches the loop over the actions
CheckConditions ==
    /\ pc = "conditions"
    /\ LET r == IF Truthy(workflow)
                THEN evaluate_conditions(workflow.conditions, context, hour)
                ELSE [raised |-> FALSE, value |-> TRUE]
           next == IF r.raised
                   THEN OuterExcept(execution_log,
                            Exc("AttributeError", "object has no attribute", "get"))
                   ELSE IF ~r.value
                   THEN [log |-> [execution_log EXCEPT
                                     !.success = FALSE,
                                     !.error = LogError("Conditions not met", -1, NoExc)],
                         outcome |-> "returned", pc |-> "done", idx |-> -1]
                   ELSE LoopTo(execution_log, 0, FALSE)
       IN  /\ evaluations' = IF Truthy(workflow) THEN evaluations + 1 ELSE evaluations
           /\ execution_log' = next.log
           /\ outcome' = next.outcome
           /\ pc' = next.pc
           /\ idx' = next.idx
    /\ UNCHANGED <<conditions, eval_result, parts, template, rendered,
                   context, hour, workflow, db_session,
                   handler_calls, collaborator_calls, in_handler,
                   hows, given, sent, stored, run, parked>>
    /\ UNCHANGED <<routerVars, workerVars>>

\* line 163 for action idx, up to the first await of its handler: the action
\* ends here (lines 164-183) or waits for its collaborator
Dispatch ==
    /\ pc = "loop"
    /\ LET action == RunActions[idx + 1]
           r == ExecuteAction(idx, action, context, db_session)
       IN  /\ handler_calls' = IF r.invoked THEN Append(handler_calls, idx)
                               ELSE handler_calls
           /\ workflow' = [workflow EXCEPT !.actions[idx + 1] = r.action]
           /\ IF r.kind = "await"
              THEN /\ collaborator_calls' = Append(collaborator_calls, idx)
                   /\ sent' = Append(sent, r.call)
                   /\ in_handler' = in_handler \cup {idx}
                   /\ pc' = "await"
                   /\ UNCHANGED <<execution_log, outcome, idx>>
              ELSE LET next == AfterAction(execution_log, idx, action, r)
                   IN  /\ execution_log' = next.log
                       /\ outcome' = next.outcome
                       /\ pc' = next.pc
                       /\ idx' = next.idx
                       /\ UNCHANGED <<collaborator_calls, in_handler, sent>>
    /\ UNCHANGED <<conditions, eval_result, parts, template, rendered,
                   context, hour, db_session, evaluations,
                   hows, given, stored, run, parked>>
    /\ UNCHANGED <<routerVars, workerVars>>

\* the call the run is waiting for: the last one it made
Outstanding ==
    sent[CHOOSE p \in DOMAIN sent :
             /\ sent[p].run = run
             /\ \A q \in DOMAIN sent : sent[q].run = run => q <= p]

\* the collaborator of action idx ends, and with it the handler and the
\* action (lines 164-183)
Resume ==
    /\ pc = "await"
    /\ LET action == RunActions[idx + 1]
           processed == _apply_templates(action, context).processed
       IN  \E how \in CollaboratorOutcomes(action.type) :
               LET next == AfterAction(execution_log, idx, action,
                                       ResumeAction(processed, Outstanding, how))
               IN  /\ execution_log' = next.log
                   /\ outcome' = next.outcome
                   /\ pc' = next.pc
                   /\ idx' = next.idx
                   /\ hows' = Append(hows, how)
    /\ in_handler' = in_handler \ {idx}
    /\ UNCHANGED <<conditions, eval_result, parts, template, rendered,
                   context, hour, workflow, db_session,
                   evaluations, handler_calls, collaborator_calls,
                   given, sent, stored, run, parked>>
    /\ UNCHANGED <<routerVars, workerVars>>

Next == StartRun \/ CheckConditions \/ Dispatch \/ Resume

Spec == Init /\ [][Next]_vars

(***************************************************************************)
(* evaluate_conditions called on its own.                                  *)
(***************************************************************************)
InitEval ==
    /\ conditions \in EvalConditions
    /\ context \in EvalContexts
    /\ hour \in Hours
    /\ eval_result = NoResult
    /\ parts = <<>>
    /\ template = None
    /\ rendered = NotRendered
    /\ workflow = NoWorkflow
    /\ db_session = FALSE
    /\ pc = "idle"
    /\ idx = 0
    /\ execution_log = NoLog
    /\ outcome = "not_called"
    /\ evaluations = 0
    /\ handler_calls = <<>>
    /\ collaborator_calls = <<>>
    /\ in_handler = {}
    /\ hows = <<>>
    /\ given = [workflow |-> workflow, context |-> context]
    /\ sent = <<>>
    /\ stored = workflow
    /\ run = 1
    /\ parked = <<>>
    /\ RouterIdle
    /\ WorkerIdle

CallEvaluateConditions ==
    /\ pc = "idle"
    /\ ~eval_result.done
    /\ LET r == evaluate_conditions(conditions, context, hour)
       IN  eval_result' = [done |-> TRUE, raised |-> r.raised, value |-> r.value]
    /\ UNCHANGED <<conditions, parts, template, rendered,
                   context, hour, workflow, db_session, pc, idx,
                   execution_log, outcome, evaluations, handler_calls,
                   collaborator_calls, in_handler,
                   hows, given, sent, stored, run, parked>>
    /\ UNCHANGED <<routerVars, workerVars>>

NextEval == CallEvaluateConditions

SpecEval == InitEval /\ [][NextEval]_vars

(***************************************************************************)
(* substitute_templates called on its own.  The text of a template is      *)
(* written from pieces: a piece is a text, or a placeholder {{path}} whose  *)
(* path may stand between spaces.                                          *)
(***************************************************************************)
Lit(text) == [hole |-> FALSE, text |-> text, pad |-> FALSE]

Hole(path, pad) == [hole |-> TRUE, text |-> path, pad |-> pad]

\* a piece as it is written in the template
Written(part) ==
    IF part.hole
    THEN <<Open, Open>>
             \o (IF part.pad THEN <<Space>> \o part.text \o <<Space>> ELSE part.text)
             \o <<Close, Close>>
    ELSE part.text

RECURSIVE TextOf(_)
TextOf(ps) == IF ps = <<>> THEN <<>> ELSE Written(Head(ps)) \o TextOf(Tail(ps))

\* paths that resolve to a str, an int, None or a dict, paths through a
\* value that is no dict, and paths with a missing key, in EvalContexts
PathPool ==
    { K_content, K_contact, Dotted(K_contact, K_phone),
      Dotted(K_content, K_phone), K_nokey, Dotted(K_contact, K_nokey) }

PartPool ==
    { Lit(<<"H", "i", Space>>), Lit(<<Open>>), Lit(<<Close>>) }
    \cup { Hole(path, pad) : path \in PathPool, pad \in BOOLEAN }

\* the templates of the model; two texts side by side are one text
PartLists ==
    { ps \in UNION { [1..n -> PartPool] : n \in 0..MaxParts } :
        \A j \in 1..(Len(ps) - 1) : ps[j].hole \/ ps[j + 1].hole }

K_message == <<"m", "e", "s", "s", "a", "g", "e">>

K_payload == <<"p", "a", "y", "l", "o", "a", "d">>

Shapes == {"str", "dict", "list", "nested", "int", "none"}

\* the objects substitute_templates is called on: the str v itself, or a
\* dict or a list that holds it beside other values, or a value that is no str
Shaped(shape, v) ==
    CASE shape = "str" -> v
      [] shape = "dict" -> Dict((K_message :> v) @@ (K_payload :> Num(7)))
      [] shape = "list" -> List(<<v, Num(7), None>>)
      [] shape = "nested" -> Dict(K_payload :> List(<<Dict(K_message :> v)>>))
      [] shape = "int" -> Num(7)
      [] OTHER -> None

\* the contexts of EvalContexts, and one whose content is itself the text
\* of a placeholder
TplContexts ==
    EvalContexts
    \cup { Dict((K_content :> Str(Written(Hole(Dotted(K_contact, K_phone), FALSE))))
                @@ (K_contact :> Dict(K_phone :> Str(S_ab)))) }

InitTpl ==
    /\ parts \in PartLists
    /\ template \in { Shaped(shape, Str(TextOf(parts))) : shape \in Shapes }
    /\ rendered = NotRendered
    /\ context \in TplContexts
    /\ conditions = EmptyConditions
    /\ eval_result = NoResult
    /\ hour = 12
    /\ workflow = NoWorkflow
    /\ db_session = FALSE
    /\ pc = "idle"
    /\ idx = 0
    /\ execution_log = NoLog
    /\ outcome = "not_called"
    /\ evaluations = 0
    /\ handler_calls = <<>>
    /\ collaborator_calls = <<>>
    /\ in_handler = {}
    /\ hows = <<>>
    /\ given = [workflow |-> workflow, context |-> context]
    /\ sent = <<>>
    /\ stored = workflow
    /\ run = 1
    /\ parked = <<>>
    /\ RouterIdle
    /\ WorkerIdle

CallSubstituteTemplates ==
    /\ pc = "idle"
    /\ ~rendered.done
    /\ rendered' = [done |-> TRUE, value |-> substitute_templates(template, context)]
    /\ UNCHANGED <<conditions, eval_result, parts, template,
                   context, hour, workflow, db_session, pc, idx,
                   execution_log, outcome, evaluations, handler_calls,
                   collaborator_calls, in_handler,
                   hows, given, sent, stored, run, parked>>
    /\ UNCHANGED <<routerVars, workerVars>>

NextTpl == CallSubstituteTemplates

SpecTpl == InitTpl /\ [][NextTpl]_vars

(***************************************************************************)
(* Runs whose actions carry parameters: templates, destinations, times.    *)
(***************************************************************************)
\* {{contact.phone}}
T_contact_phone == TextOf(<<Hole(Dotted(K_contact, K_phone), FALSE)>>)

\* {{nokey}}
T_nokey == TextOf(<<Hole(K_nokey, FALSE)>>)

\* Hi {{content}}
T_hi_content == TextOf(<<Lit(<<"H", "i", Space>>), Hole(K_content, FALSE)>>)

SmsActions ==
    { [Action("send_sms", continue_on_error, to_number) EXCEPT !.message = Str(T_hi_content)] :
        continue_on_error \in {"true"},
        to_number \in { Absent, Str(<<"3">>), Str(<<>>), Str(T_contact_phone),
                        Str(T_nokey) } }

\* the hours of the model's event_data, as ISO text: before now, now, after
\* now + 1, and a text that is no time
EventActions ==
    { [Action("create_event", "true", Absent) EXCEPT !.start_time = start_time,
                                                      !.end_time = end_time] :
        start_time \in { Absent, Str(<<"1", "0">>), Str(<<"1", "2">>),
                         Str(<<"1", "5">>), Str(S_ab) },
        end_time \in { Absent, Str(<<"1", "6">>) } }

DelayActions ==
    { [Action("delay", "absent", Absent) EXCEPT !.delay_seconds = delay_seconds] :
        delay_seconds \in { Absent, Num(3), Num(0), Str(<<"5">>) } }

HandlerActionPool ==
    SmsActions \cup EventActions \cup DelayActions
    \cup { Action("update_contact", "absent", Absent),
           Action("create_contact", "true", Absent),
           Action("webhook", "true", Absent) }

HandlerActionLists == UNION { [1..n -> HandlerActionPool] : n \in 0..MaxActions }

\* contexts with both phones, with the contact's phone alone, with none, and
\* with a contact that is None
HandlerContexts ==
    { Dict((K_content :> Str(<<"A", "B", "1">>))
           @@ (K_sender_phone :> Str(<<"1", "2">>))
           @@ (K_contact :> Dict(K_phone :> Str(S_ab)))),
      Dict((K_content :> Str(<<"A", "B", "1">>))
           @@ (K_contact :> Dict(K_phone :> Str(S_ab)))),
      Dict(K_content :> Str(<<"A", "B", "1">>)),
      Dict((K_sender_phone :> Str(<<>>)) @@ (K_contact :> None)) }

InitActions ==
    /\ workflow \in { [enabled |-> "true", has_conditions |-> FALSE,
                       conditions |-> EmptyConditions, actions |-> a] :
                        a \in HandlerActionLists }
    /\ context \in HandlerContexts
    /\ db_session \in BOOLEAN
    /\ hour = 12
    /\ conditions = EmptyConditions
    /\ eval_result = NoResult
    /\ parts = <<>>
    /\ template = None
    /\ rendered = NotRendered
    /\ pc = "idle"
    /\ idx = -1
    /\ execution_log = NoLog
    /\ outcome = "not_called"
    /\ evaluations = 0
    /\ handler_calls = <<>>
    /\ collaborator_calls = <<>>
    /\ in_handler = {}
    /\ hows = <<>>
    /\ given = [workflow |-> workflow, context |-> context]
    /\ sent = <<>>
    /\ stored = workflow
    /\ run = 1
    /\ parked = <<>>
    /\ RouterIdle
    /\ WorkerIdle

SpecActions == InitActions /\ [][Next]_vars

(***************************************************************************)
(* Runs on one event loop.  The loop executes one run at a time and goes   *)
(* over to another only where the run it executes is suspended in an       *)
(* await, has not begun, or has ended.                                     *)
(***************************************************************************)
Runs == {1, 2}

\* the locals of the call of execute_workflow the loop is executing
Locals ==
    [workflow |-> workflow, context |-> context, db_session |-> db_session,
     pc |-> pc, idx |-> idx, execution_log |-> execution_log,
     outcome |-> outcome, evaluations |-> evaluations,
     handler_calls |-> handler_calls, collaborator_calls |-> collaborator_calls,
     in_handler |-> in_handler, hows |-> hows, given |-> given]

\* the locals of a call that has not begun
NewLocals(w, ctx, db) ==
    [workflow |-> w, context |-> ctx, db_session |-> db,
     pc |-> "idle", idx |-> -1, execution_log |-> NoLog,
     outcome |-> "not_called", evaluations |-> 0,
     handler_calls |-> <<>>, collaborator_calls |-> <<>>,
     in_handler |-> {}, hows |-> <<>>,
     given |-> [workflow |-> w, context |-> ctx]]

\* seeded fault: delay sleeps with time.sleep, which holds the loop
SuspendsNoDelay(type) == type \in {"webhook"} \cup CreateActions

\* The await of the handler suspends the coroutine: asyncio.sleep,
\* session.request and db_session.commit do.  EmailHandler.send_email talks
\* to the SMTP server with smtplib inside a coroutine that awaits nothing,
\* and send_sms raises before any await: the loop stays with the run.
Suspends(type) == type \in {"delay", "webhook"} \cup CreateActions

\* the loop may leave the run it executes
Yields ==
    \/ pc \in {"idle", "done"}
    \/ pc = "await" /\ Suspends(RunActions[idx + 1].type)

\* seeded fault: the log kept on the engine instance, one for all runs
LogOnSwitchShared(mine, theirs) == mine

\* execution_log is a local of the call (line 137): the run the loop goes
\* over to has its own
LogOnSwitch(mine, theirs) == theirs

\* the loop leaves the run it executes for a run r that has not ended
Switch ==
    /\ Yields
    /\ \E r \in DOMAIN parked :
          /\ parked[r].pc # "done"
          /\ run' = r
          /\ parked' = [q \in (DOMAIN parked \ {r}) \cup {run} |->
                           IF q = run THEN Locals ELSE parked[q]]
          /\ workflow' = parked[r].workflow
          /\ context' = parked[r].context
          /\ db_session' = parked[r].db_session
          /\ pc' = parked[r].pc
          /\ idx' = parked[r].idx
          /\ execution_log' = LogOnSwitch(execution_log, parked[r].execution_log)
          /\ outcome' = parked[r].outcome
          /\ evaluations' = parked[r].evaluations
          /\ handler_calls' = parked[r].handler_calls
          /\ collaborator_calls' = parked[r].collaborator_calls
          /\ in_handler' = parked[r].in_handler
          /\ hows' = parked[r].hows
          /\ given' = parked[r].given
    /\ UNCHANGED <<conditions, eval_result, parts, template, rendered, hour,
                   sent, stored>>
    /\ UNCHANGED <<routerVars, workerVars>>

\* the actions of the runs of the model: two delays, an email, a webhook
\* whose failure is tolerated, the placeholder and an unknown type
ConcActionPool ==
    { Action("delay", "absent", Absent),
      [Action("delay", "true", Absent) EXCEPT !.delay_seconds = Num(3)],
      Action("send_email", "absent", Absent),
      Action("webhook", "true", Absent),
      Action("update_contact", "absent", Absent),
      Action("bogus", "true", Absent) }

ConcWorkflow(actions) ==
    [enabled |-> "true", has_conditions |-> FALSE,
     conditions |-> EmptyConditions, actions |-> actions]

ConcWorkflows ==
    { ConcWorkflow(a) : a \in UNION { [1..n -> ConcActionPool] : n \in 0..MaxActions } }

\* the workflows of the second run when it is not a second trigger of the
\* workflow of the first
OtherWorkflows ==
    { ConcWorkflow(<<Action("webhook", "true", Absent)>>),
      ConcWorkflow(<<Action("update_contact", "absent", Absent),
                     Action("delay", "absent", Absent)>>) }

ConcContext == Dict(K_content :> Str(<<"A", "B", "1">>))

InitRuns ==
    /\ workflow \in ConcWorkflows
    /\ context = ConcContext
    /\ db_session = FALSE
    /\ hour = 12
    /\ conditions = EmptyConditions
    /\ eval_result = NoResult
    /\ parts = <<>>
    /\ template = None
    /\ rendered = NotRendered
    /\ pc = "idle"
    /\ idx = -1
    /\ execution_log = NoLog
    /\ outcome = "not_called"
    /\ evaluations = 0
    /\ handler_calls = <<>>
    /\ collaborator_calls = <<>>
    /\ in_handler = {}
    /\ hows = <<>>
    /\ given = [workflow |-> workflow, context |-> context]
    /\ sent = <<>>
    /\ stored = workflow
    /\ run = 1
    /\ \E w \in {workflow} \cup OtherWorkflows :
          parked = [q \in Runs \ {1} |-> NewLocals(w, ConcContext, FALSE)]
    /\ RouterIdle
    /\ WorkerIdle

NextRuns == StartRun \/ CheckConditions \/ Dispatch \/ Resume \/ Switch

SpecRuns == InitRuns /\ [][NextRuns]_vars

(***************************************************************************)
(* A run while the workflows table is written.                             *)
(***************************************************************************)
\* the bodies of the update requests of the model (WorkflowUpdate): a field
\* is set when `has` says so
NoUpdate ==
    [has_enabled |-> FALSE, enabled |-> "true", has_conditions |-> FALSE,
     conditions |-> EmptyConditions, has_actions |-> FALSE, actions |-> <<>>]

WorkflowUpdates ==
    { [NoUpdate EXCEPT !.has_enabled = TRUE, !.enabled = "false"],
      [NoUpdate EXCEPT !.has_conditions = TRUE,
                       !.conditions = Leaf("equals", Absent, Str(<<"3">>))],
      [NoUpdate EXCEPT !.has_actions = TRUE, !.actions = <<>>],
      [NoUpdate EXCEPT !.has_actions = TRUE,
                       !.actions = <<Action("update_contact", "absent", Absent)>>],
      [NoUpdate EXCEPT !.has_actions = TRUE,
                       !.actions = <<Action("update_contact", "absent", Absent),
                                     Action("update_contact", "absent", Absent),
                                     Action("update_contact", "absent", Absent),
                                     Action("update_contact", "absent", Absent)>>],
      [NoUpdate EXCEPT !.has_actions = TRUE, !.actions = <<NotAnAction>>] }

\* update_workflow of routers/workflows.py on the row: the fields the request
\* gives are set; an empty list of actions (min_items=1) and actions that
\* are not all dicts with a type are refused
update_workflow(row, data) ==
    IF data.has_actions
       /\ \/ data.actions = <<>>
          \/ \E j \in DOMAIN data.actions :
                 ~data.actions[j].mapping \/ data.actions[j].type = "absent"
    THEN row
    ELSE [row EXCEPT
            !.conditions = IF data.has_conditions THEN data.conditions ELSE @,
            !.has_conditions = IF data.has_conditions THEN TRUE ELSE @,
            !.actions = IF data.has_actions THEN data.actions ELSE @,
            !.enabled = IF data.has_enabled THEN data.enabled ELSE @]

\* an update request is served while the run is suspended in an await
UpdateWorkflow ==
    /\ pc = "await"
    /\ stored = given.workflow
    /\ \E data \in WorkflowUpdates : stored' = update_workflow(stored, data)
    /\ UNCHANGED <<conditions, eval_result, parts, template, rendered,
                   context, hour, workflow, db_session, pc, idx,
                   execution_log, outcome, evaluations, handler_calls,
                   collaborator_calls, in_handler,
                   hows, given, sent, run, parked>>
    /\ UNCHANGED <<routerVars, workerVars>>

InitUpdate ==
    /\ workflow \in ConcWorkflows
    /\ context = ConcContext
    /\ db_session = FALSE
    /\ hour = 12
    /\ conditions = EmptyConditions
    /\ eval_result = NoResult
    /\ parts = <<>>
    /\ template = None
    /\ rendered = NotRendered
    /\ pc = "idle"
    /\ idx = -1
    /\ execution_log = NoLog
    /\ outcome = "not_called"
    /\ evaluations = 0
    /\ handler_calls = <<>>
    /\ collaborator_calls = <<>>
    /\ in_handler = {}
    /\ hows = <<>>
    /\ given = [workflow |-> workflow, context |-> context]
    /\ sent = <<>>
    /\ stored = workflow
    /\ run = 1
    /\ parked = <<>>
    /\ RouterIdle
    /\ WorkerIdle

NextUpdate == StartRun \/ CheckConditions \/ Dispatch \/ Resume \/ UpdateWorkflow

SpecUpdate == InitUpdate /\ [][NextUpdate]_vars

(***************************************************************************)
(* The workflows router (routers/workflows.py) over the workflows and      *)
(* workflow_executions tables.                                             *)
(***************************************************************************)
\* requests served in a behaviour
MaxRequests == 3

\* rows the workflows table holds at most
MaxWorkflows == 2

Users == {"A", "B"}

\* class WorkflowTrigger of the engine
WorkflowTrigger ==
    {"message_received", "contact_created", "event_created", "time_based", "manual"}

\* the pattern of WorkflowCreate.trigger and of WorkflowUpdate.trigger
TriggerPattern == {"message_received", "contact_created", "event_created"}

\* CheckConstraint check_workflow_trigger of the workflows table
CheckWorkflowTrigger == {"message_received", "contact_created", "event_created"}

\* the ids a request can name: 0 is a text that is no UUID, the others are
\* UUIDs
WorkflowIds == 0..MaxWorkflows

\* A request body.  "absent" is a field that is not given (or null);
\* has_conditions and has_actions say whether the field is given.
Body(name, trigger, has_actions, actions, enabled) ==
    [name |-> name, description |-> "absent", trigger |-> trigger,
     has_conditions |-> FALSE, conditions |-> EmptyConditions,
     has_actions |-> has_actions, actions |-> actions, enabled |-> enabled]

Typed == Action("send_sms", "absent", Absent)

Untyped == Action("absent", "absent", Absent)

\* WorkflowCreate (lines 33-39) accepts the body: name of 1 to 255
\* characters, trigger matching the pattern, at least one action, each a
\* dict; enabled defaults to True
ValidCreate(data) ==
    /\ data.name \notin {"absent", ""}
    /\ data.trigger \in TriggerPattern
    /\ data.has_actions
    /\ Len(data.actions) >= 1
    /\ \A j \in DOMAIN data.actions : data.actions[j].mapping

\* WorkflowUpdate (lines 42-48) accepts the body: every field may be missing
ValidUpdate(data) ==
    /\ data.name # ""
    /\ data.trigger \in TriggerPattern \cup {"absent"}
    /\ data.has_actions =>
           /\ Len(data.actions) >= 1
           /\ \A j \in DOMAIN data.actions : data.actions[j].mapping

\* not isinstance(action, dict) or "type" not in action, for some action
SomeActionWithoutType(actions) ==
    \E j \in DOMAIN actions : ~actions[j].mapping \/ actions[j].type = "absent"

\* the two tables as a session sees them
Db(workflows, executions) == [workflows |-> workflows, executions |-> executions]

\* What a handler leaves: the status of the response and its body, whether
\* it raised, the tables as its session holds them (pending changes
\* included) and the tables as its own commits left them.
Served(status, body, session, committed) ==
    [status |-> status, body |-> body, raised |-> status >= 400,
     session |-> session, committed |-> committed]

\* seeded fault: the session committed whether or not the handler raised
GetDbCommitAlways(r) == r.session

\* get_db (database.py lines 44-61): the session is committed when the
\* handler returned, rolled back when it raised
get_db(r) == IF r.raised THEN r.committed ELSE r.session

\* seeded fault: the row looked up by its id alone
FindWorkflowAnyOwner(db, workflow_id, user) ==
    IF workflow_id \in DOMAIN db.workflows THEN {workflow_id} ELSE {}

\* select(WorkflowModel).where(and_(id == workflow_uuid, user_id ==
\* current_user.id)): the ids of the rows found (one or none)
FindWorkflow(db, workflow_id, user) ==
    IF workflow_id \in DOMAIN db.workflows /\ db.workflows[workflow_id].user_id = user
    THEN {workflow_id}
    ELSE {}

\* the table with row w under id i
WithRow(workflows, i, w) ==
    [j \in DOMAIN workflows \cup {i} |-> IF j = i THEN w ELSE workflows[j]]

\* the table without the row of id i
WithoutRow(workflows, i) == [j \in DOMAIN workflows \ {i} |-> workflows[j]]

\* the executions that are not of workflow i (ondelete="CASCADE")
ExecutionsNotOf(executions, i) ==
    SelectSeq(executions, LAMBDA x : x.workflow_id # i)

\* len of the executions of workflow i
ExecutionCount(db, i) ==
    Len(SelectSeq(db.executions, LAMBDA x : x.workflow_id = i))

\* WorkflowResponse of a row
WorkflowResponse(db, i) ==
    [id |-> i, row |-> db.workflows[i], execution_count |-> ExecutionCount(db, i)]

\* the request is answered before its handler runs: 422 for a body the
\* model refuses
Unprocessable(db) == Served(422, <<>>, db, db)

\* the id of the request is no UUID (lines 169-172 and alike)
BadId(db) == Served(400, <<>>, db, db)

NotFound(db) == Served(404, <<>>, db, db)

\* create_workflow (lines 111-158) for a body WorkflowCreate accepted; i is
\* the uuid4 of the row
create_workflow(db, user, data, now, i) ==
    IF SomeActionWithoutType(data.actions)
    THEN Served(400, <<>>, db, db)
    ELSE LET row == [user_id |-> user, name |-> data.name,
                     description |-> data.description, trigger |-> data.trigger,
                     has_conditions |-> data.has_conditions,
                     conditions |-> data.conditions, actions |-> data.actions,
                     enabled |-> IF data.enabled = "false" THEN "false" ELSE "true",
                     created_at |-> now, updated_at |-> now]
             added == Db(WithRow(db.workflows, i, row), db.executions)
         IN  IF row.trigger \in CheckWorkflowTrigger
             THEN Served(201, WorkflowResponse(added, i), added, added)
             ELSE Served(500, <<>>, added, db)

\* get_workflow (lines 161-200)
get_workflow(db, user, workflow_id) ==
    IF workflow_id = 0 THEN BadId(db)
    ELSE IF FindWorkflow(db, workflow_id, user) = {} THEN NotFound(db)
    ELSE Served(200, WorkflowResponse(db, workflow_id), db, db)

\* lines 228-235: the fields set before the actions are looked at
SetBeforeActions(row, data) ==
    [row EXCEPT
       !.name = IF data.name # "absent" THEN data.name ELSE @,
       !.description = IF data.description # "absent" THEN data.description ELSE @,
       !.trigger = IF data.trigger # "absent" THEN data.trigger ELSE @,
       !.has_conditions = IF data.has_conditions THEN TRUE ELSE @,
       !.conditions = IF data.has_conditions THEN data.conditions ELSE @]

\* lines 244-248: the fields set once the actions passed
SetAfterActions(row, data, now) ==
    [row EXCEPT
       !.actions = IF data.has_actions THEN data.actions ELSE @,
       !.enabled = IF data.enabled # "absent" THEN data.enabled ELSE @,
       !.updated_at = now]

\* update_workflow of the router (lines 203-269) for a body WorkflowUpdate
\* accepted
update_workflow_route(db, user, workflow_id, data, now) ==
    IF workflow_id = 0 THEN BadId(db)
    ELSE IF FindWorkflow(db, workflow_id, user) = {} THEN NotFound(db)
    ELSE LET first == SetBeforeActions(db.workflows[workflow_id], data)
             dirty == Db(WithRow(db.workflows, workflow_id, first), db.executions)
             row == SetAfterActions(first, data, now)
             updated == Db(WithRow(db.workflows, workflow_id, row), db.executions)
         IN  IF data.has_actions /\ SomeActionWithoutType(data.actions)
             THEN Served(400, <<>>, dirty, db)
             ELSE IF row.trigger \in CheckWorkflowTrigger
             THEN Served(200, WorkflowResponse(updated, workflow_id), updated, updated)
             ELSE Served(500, <<>>, updated, db)

\* delete_workflow (lines 272-298)
delete_workflow(db, user, workflow_id) ==
    IF workflow_id = 0 THEN BadId(db)
    ELSE IF FindWorkflow(db, workflow_id, user) = {} THEN NotFound(db)
    ELSE LET deleted == Db(WithoutRow(db.workflows, workflow_id),
                           ExecutionsNotOf(db.executions, workflow_id))
         IN  Served(204, <<>>, deleted, deleted)

\* toggle_workflow (lines 301-333)
toggle_workflow(db, user, workflow_id, now) ==
    IF workflow_id = 0 THEN BadId(db)
    ELSE IF FindWorkflow(db, workflow_id, user) = {} THEN NotFound(db)
    ELSE LET row == [db.workflows[workflow_id] EXCEPT
                        !.enabled = IF @ = "true" THEN "false" ELSE "true",
                        !.updated_at = now]
             toggled == Db(WithRow(db.workflows, workflow_id, row), db.executions)
         IN  Served(200, [enabled |-> row.enabled], toggled, toggled)

\* test_workflow (lines 336-374): an execution row, and no run of the engine
test_workflow(db, user, workflow_id, now) ==
    IF workflow_id = 0 THEN BadId(db)
    ELSE IF FindWorkflow(db, workflow_id, user) = {} THEN NotFound(db)
    ELSE LET test_execution == [workflow_id |-> workflow_id, status |-> "completed",
                                executed_at |-> now, completed_at |-> now]
             added == Db(db.workflows, Append(db.executions, test_execution))
         IN  Served(200, <<>>, added, added)

\* get_workflow_executions (lines 377-421)
get_workflow_executions(db, user, workflow_id) ==
    IF workflow_id = 0 THEN BadId(db)
    ELSE IF FindWorkflow(db, workflow_id, user) = {} THEN NotFound(db)
    ELSE Served(200, SelectSeq(db.executions, LAMBDA x : x.workflow_id = workflow_id),
                db, db)

\* get_workflows (lines 64-108): the ids of the rows of the user
get_workflows(db, user) ==
    Served(200, {i \in DOMAIN db.workflows : db.workflows[i].user_id = user}, db, db)

\* the bodies of the model's requests: each trigger of the engine and one
\* that is none, names given, empty and missing, action lists given, empty
\* and missing, with and without a type
CreateBodies ==
    { Body("n1", t, TRUE, <<Typed>>, "absent") : t \in WorkflowTrigger \cup {"bogus"} }
    \cup { Body("n1", "message_received", TRUE, a, "false") :
             a \in { <<>>, <<Untyped>>, <<Typed, Untyped>> } }
    \cup { Body("n1", "message_received", FALSE, <<>>, "false"),
           Body("", "contact_created", TRUE, <<Typed>>, "true") }

UpdateBodies ==
    { Body("absent", t, FALSE, <<>>, "absent") : t \in WorkflowTrigger \cup {"bogus"} }
    \cup { Body("n2", "event_created", TRUE, a, "false") :
             a \in { <<>>, <<Untyped>>, <<Typed, Typed>> } }
    \cup { Body("n2", "event_created", FALSE, <<>>, "false"),
           [Body("absent", "absent", TRUE, <<Untyped>>, "absent") EXCEPT
               !.description = "d", !.has_conditions = TRUE] }

\* the database as the tables hold it
Tables == Db(workflows_table, workflow_executions)

\* a request is served: the tables are what get_db leaves
Serve(op, user, workflow_id, data, r) ==
    /\ request' = [op |-> op, user |-> user, workflow_id |-> workflow_id, data |-> data]
    /\ response' = [status |-> r.status, body |-> r.body]
    /\ workflows_table' = get_db(r).workflows
    /\ workflow_executions' = get_db(r).executions
    /\ clock' = clock + 1
    /\ UNCHANGED <<conditions, eval_result, parts, template, rendered,
                   context, hour, workflow, db_session, pc, idx,
                   execution_log, outcome, evaluations, handler_calls,
                   collaborator_calls, in_handler,
                   hows, given, sent, stored, run, parked>>
    /\ UNCHANGED workerVars

\* the uuid4 of a new row is an id no row has: the least one, ids being
\* alike
CreateWorkflow ==
    /\ clock < MaxRequests
    /\ \E user \in Users, data \in CreateBodies :
         IF ~ValidCreate(data)
         THEN Serve("create", user, 0, data, Unprocessable(Tables))
         ELSE \E i \in 1..MaxWorkflows :
                /\ i \notin DOMAIN workflows_table
                /\ \A j \in 1..(i - 1) : j \in DOMAIN workflows_table
                /\ Serve("create", user, i, data,
                         create_workflow(Tables, user, data, clock + 1, i))

GetWorkflows ==
    /\ clock < MaxRequests
    /\ \E user \in Users :
         Serve("list", user, 0, <<>>, get_workflows(Tables, user))

GetWorkflow ==
    /\ clock < MaxRequests
    /\ \E user \in Users, workflow_id \in WorkflowIds :
         Serve("get", user, workflow_id, <<>>, get_workflow(Tables, user, workflow_id))

UpdateWorkflowRequest ==
    /\ clock < MaxRequests
    /\ \E user \in Users, workflow_id \in WorkflowIds, data \in UpdateBodies :
         Serve("update", user, workflow_id, data,
               IF ~ValidUpdate(data) THEN Unprocessable(Tables)
               ELSE update_workflow_route(Tables, user, workflow_id, data, clock + 1))

DeleteWorkflow ==
    /\ clock < MaxRequests
    /\ \E user \in Users, workflow_id \in WorkflowIds :
         Serve("delete", user, workflow_id, <<>>,
               delete_workflow(Tables, user, workflow_id))

ToggleWorkflow ==
    /\ clock < MaxRequests
    /\ \E user \in Users, workflow_id \in WorkflowIds :
         Serve("toggle", user, workflow_id, <<>>,
               toggle_workflow(Tables, user, workflow_id, clock + 1))

TestWorkflow ==
    /\ clock < MaxRequests
    /\ \E user \in Users, workflow_id \in WorkflowIds :
         Serve("test", user, workflow_id, <<>>,
               test_workflow(Tables, user, workflow_id, clock + 1))

GetWorkflowExecutions ==
    /\ clock < MaxRequests
    /\ \E user \in Users, workflow_id \in WorkflowIds :
         Serve("executions", user, workflow_id, <<>>,
               get_workflow_executions(Tables, user, workflow_id))

\* the engine and the worker at rest
EngineIdle ==
    /\ workflow = NoWorkflow
    /\ context = Dict(NoItems)
    /\ db_session = FALSE
    /\ hour = 12
    /\ conditions = EmptyConditions
    /\ eval_result = NoResult
    /\ parts = <<>>
    /\ template = None
    /\ rendered = NotRendered
    /\ pc = "off"
    /\ idx = -1
    /\ execution_log = NoLog
    /\ outcome = "not_called"
    /\ evaluations = 0
    /\ handler_calls = <<>>
    /\ collaborator_calls = <<>>
    /\ in_handler = {}
    /\ hows = <<>>
    /\ given = [workflow |-> workflow, context |-> context]
    /\ sent = <<>>
    /\ stored = workflow
    /\ run = 1
    /\ parked = <<>>

InitApi ==
    /\ EngineIdle
    /\ RouterIdle
    /\ WorkerIdle

NextApi ==
    \/ CreateWorkflow
    \/ GetWorkflows
    \/ GetWorkflow
    \/ UpdateWorkflowRequest
    \/ DeleteWorkflow
    \/ ToggleWorkflow
    \/ TestWorkflow
    \/ GetWorkflowExecutions

SpecApi == InitApi /\ [][NextApi]_vars

(***************************************************************************)
(* The worker (workers/worker.py): process_message for one message, each   *)
(* delivery of the task an invocation with a session of its own.           *)
(***************************************************************************)
\* deliveries of the task for the message
MaxInvocations == 2

\* the variables of the engine
engineVars ==
    <<conditions, eval_result, parts, template, rendered, context, hour,
      workflow, db_session, pc, idx, execution_log, outcome, evaluations,
      handler_calls, collaborator_calls, in_handler, hows, given, sent,
      stored, run, parked>>

\* What extract_message_data returns (ai_extractor.py lines 174-240): every
\* contact and location has a name, every event a title and a start_time,
\* every task a title.  "none" is None for a phone or an email, 0 is None
\* for a time (times are hours from 1 on); the location of an event is a
\* text or None (given = FALSE).
ContactData(name, phone, email) == [name |-> name, phone |-> phone, email |-> email]

LocationData(name) == [name |-> name]

EventData(start_time, end_time, has_location, location) ==
    [start_time |-> start_time, end_time |-> end_time,
     location |-> [given |-> has_location, text |-> location]]

TaskData(title) == [title |-> title]

Extracted(contacts, locations, events, tasks) ==
    [contacts |-> contacts, locations |-> locations, events |-> events,
     tasks |-> tasks]

\* _empty_result
EmptyResult == Extracted(<<>>, <<>>, <<>>, <<>>)

\* a row of the contacts, locations, events or tasks table, made by
\* invocation `by` from item `item` of its kind; id is its uuid4
Row(kind, by, item) ==
    [kind |-> kind, id |-> <<by, kind, item>>, by |-> by, name |-> <<>>,
     phone |-> "none", email |-> "none", start_time |-> 0, end_time |-> 0,
     location_id |-> <<>>, last_contact |-> 0]

\* CheckConstraint check_event_time_order of the events table
CheckEventTimeOrder(row) == row.kind = "event" => row.end_time > row.start_time

\* the contacts the query of find_or_create_contact finds (lines 235-243):
\* a None in contact_data compares as IS NULL
Matches(recs, data) ==
    { c \in recs : c.kind = "contact"
                   /\ (c.email = data.email \/ c.phone = data.phone) }

\* find_or_create_contact (lines 227-274) by invocation `by` for item k:
\* scalar_one_or_none raises when the query finds two rows; a row found is
\* updated, else a new one is added to the session
find_or_create_contact(recs, by, k, data) ==
    LET queried == data.email # "none" \/ data.phone # "none"
        found == IF queried THEN Matches(recs, data) ELSE {}
    IN  [raised |-> Cardinality(found) > 1,
         created |-> IF found = {}
                     THEN {[Row("contact", by, k) EXCEPT
                               !.name = data.name, !.phone = data.phone,
                               !.email = data.email, !.last_contact = by]}
                     ELSE {},
         touched |-> IF Cardinality(found) = 1 THEN {c.id : c \in found} ELSE {}]

\* create_location (lines 277-296)
create_location(by, k, data) == [Row("location", by, k) EXCEPT !.name = data.name]

\* created_locations after the loop of lines 206-210: the location kept for
\* a name is the last one made with it
KeptLocation(locations, k) ==
    CHOOSE j \in DOMAIN locations :
        /\ locations[j].name = locations[k].name
        /\ \A h \in DOMAIN locations : locations[h].name = locations[k].name => h <= j

\* lines 311-316: the id of the first location, in the order the names
\* entered created_locations, whose name is part of the event's location
MatchLocation(by, locations, data) ==
    LET hits == { k \in DOMAIN locations :
                    Contains(Lower(data.location.text), Lower(locations[k].name)) }
    IN  IF hits = {} THEN <<>>
        ELSE LET first == CHOOSE k \in hits : \A h \in hits : k <= h
             IN  <<by, "location", KeptLocation(locations, first)>>

\* event_location.lower() of line 314 raises for an event whose location is
\* None, once the loop over the created locations has a first turn
LocationRaises(locations, data) == locations # <<>> /\ ~data.location.given

\* event_data.get("end_time") or event_data["start_time"] (line 323)
EventEnd(data) == IF data.end_time # 0 THEN data.end_time ELSE data.start_time

\* create_event (lines 299-331) where it does not raise: no row for an
\* event without start_time
create_event(by, k, data, locations) ==
    IF data.start_time = 0 THEN {}
    ELSE {[Row("event", by, k) EXCEPT
              !.start_time = data.start_time, !.end_time = EventEnd(data),
              !.location_id = MatchLocation(by, locations, data)]}

\* create_task (lines 334-356)
create_task(by, k, data) == [Row("task", by, k) EXCEPT !.name = data.title]

\* process_extracted_data (lines 172-224) by invocation `by` whose session
\* loaded the message with contact_id `seen`: whether it raised, the rows it
\* added to the session until then, the ids of the contacts it updated, and
\* message.contact_id as the session holds it.  The queries see the
\* committed rows only (autoflush=False).
process_extracted_data(recs, seen, by, data) ==
    LET c(k) == find_or_create_contact(recs, by, k, data.contacts[k])
        craised == { k \in DOMAIN data.contacts : c(k).raised }
        eraised == { k \in DOMAIN data.events :
                       LocationRaises(data.locations, data.events[k]) }
        \* the items reached before the first exception
        cdone == { k \in DOMAIN data.contacts : \A h \in craised : k < h }
        edone == IF craised # {} THEN {}
                 ELSE { k \in DOMAIN data.events : \A h \in eraised : k < h }
        ldone == IF craised # {} THEN {} ELSE DOMAIN data.locations
        tdone == IF craised # {} \/ eraised # {} THEN {} ELSE DOMAIN data.tasks
        first == c(1).created \cup { r \in recs : r.id \in c(1).touched }
    IN  [raised |-> craised # {} \/ eraised # {},
         pending |-> UNION { c(k).created : k \in cdone }
                     \cup { create_location(by, k, data.locations[k]) : k \in ldone }
                     \cup UNION { create_event(by, k, data.events[k], data.locations) :
                                    k \in edone }
                     \cup { create_task(by, k, data.tasks[k]) : k \in tdone },
         touched |-> UNION { c(k).touched : k \in cdone },
         contact_id |-> IF seen = <<>> /\ 1 \in cdone
                        THEN (CHOOSE r \in first : TRUE).id
                        ELSE seen]

\* an invocation of process_message: where it stands, what it returned, and
\* its session: the contact_id of the message as loaded, the rows added, the
\* contacts updated, message.contact_id
NewInvocation ==
    [pc |-> "load", result |-> "none", seen |-> <<>>, pending |-> {},
     touched |-> {}, contact_id |-> <<>>]

\* seeded fault: the session flushed to the tables when it is closed
CloseSessionFlushed(recs, inv) == recs \cup inv.pending

\* async with AsyncSessionLocal() left by an exception: the session is
\* closed and what it held is gone
CloseSession(recs, inv) == recs

\* the tables after the commit of line 152: the rows added, and the updated
\* contacts with their new last_contact
Committed(recs, by, inv) ==
    { IF r.id \in inv.touched THEN [r EXCEPT !.last_contact = by] ELSE r : r \in recs }
        \cup inv.pending

\* the extractions of the model: nothing; a contact and a task; a contact
\* without phone or email and an event; an event without end_time; a
\* location and an event at it; a location, a contact and an event without
\* location; an event that ends before it starts
Ann == <<"A", "n">>

ExtractedPool ==
    { EmptyResult,
      Extracted(<<ContactData(Ann, "p1", "none")>>, <<>>, <<>>, <<TaskData(<<"B">>)>>),
      Extracted(<<ContactData(Ann, "none", "none")>>, <<>>,
                <<EventData(10, 11, FALSE, <<>>)>>, <<>>),
      Extracted(<<>>, <<>>, <<EventData(10, 0, TRUE, <<"A", "B">>)>>, <<>>),
      Extracted(<<>>, <<LocationData(<<"A">>)>>,
                <<EventData(10, 12, TRUE, <<"a", "B">>)>>, <<>>),
      Extracted(<<ContactData(Ann, "p2", "e2")>>, <<LocationData(<<"A">>)>>,
                <<EventData(10, 11, FALSE, <<>>)>>, <<TaskData(<<"B">>)>>),
      Extracted(<<>>, <<>>, <<EventData(10, 9, TRUE, <<>>)>>, <<>>) }

\* the task is delivered: enqueued by the webhook, enqueued again, or
\* redelivered (task_acks_late) after a worker was lost
Deliver ==
    /\ Len(invocations) < MaxInvocations
    /\ invocations' = Append(invocations, NewInvocation)
    /\ UNCHANGED <<message, records, extractions>>
    /\ UNCHANGED <<engineVars, routerVars>>

\* lines 108-128: the message is loaded and its processed flag tested
Load(i) ==
    /\ invocations[i].pc = "load"
    /\ invocations' =
           [invocations EXCEPT ![i] =
               IF message.processed
               THEN [@ EXCEPT !.pc = "done", !.result = "already_processed"]
               ELSE [@ EXCEPT !.pc = "extract", !.seen = message.contact_id,
                              !.contact_id = message.contact_id]]
    /\ UNCHANGED <<message, records, extractions>>
    /\ UNCHANGED <<engineVars, routerVars>>

\* lines 139-146: extract_message_data, which returns whatever happens to
\* it, then process_extracted_data on what it returned
Extract(i) ==
    /\ invocations[i].pc = "extract"
    /\ extractions' = extractions + 1
    /\ \E data \in ExtractedPool :
         LET r == process_extracted_data(records, invocations[i].seen, i, data)
             inv == [invocations[i] EXCEPT
                        !.pending = r.pending, !.touched = r.touched,
                        !.contact_id = r.contact_id]
         IN  IF r.raised
             THEN /\ invocations' = [invocations EXCEPT ![i] =
                                        [inv EXCEPT !.pc = "raised"]]
                  /\ records' = CloseSession(records, inv)
             ELSE /\ invocations' = [invocations EXCEPT ![i] =
                                        [inv EXCEPT !.pc = "commit"]]
                  /\ UNCHANGED records
    /\ UNCHANGED message
    /\ UNCHANGED <<engineVars, routerVars>>

\* lines 149-163: processed and extracted_data set, and the commit: it
\* raises when a row breaks a constraint, and may raise for reasons of the
\* database's own
Commit(i) ==
    /\ invocations[i].pc = "commit"
    /\ LET inv == invocations[i]
       IN  \E how \in {"commit", "raise"} :
             IF how = "raise" \/ \E r \in inv.pending : ~CheckEventTimeOrder(r)
             THEN /\ invocations' = [invocations EXCEPT ![i].pc = "raised"]
                  /\ records' = CloseSession(records, inv)
                  /\ UNCHANGED message
             ELSE /\ invocations' = [invocations EXCEPT ![i].pc = "done",
                                                        ![i].result = "completed"]
                  /\ records' = Committed(records, i, inv)
                  /\ message' = [processed |-> TRUE, has_extracted_data |-> TRUE,
                                 contact_id |-> IF inv.contact_id # inv.seen
                                                THEN inv.contact_id
                                                ELSE message.contact_id]
    /\ UNCHANGED extractions
    /\ UNCHANGED <<engineVars, routerVars>>

\* the worker process is lost while the invocation runs
Kill(i) ==
    /\ invocations[i].pc \in {"load", "extract", "commit"}
    /\ invocations' = [invocations EXCEPT ![i].pc = "lost"]
    /\ records' = CloseSession(records, invocations[i])
    /\ UNCHANGED <<message, extractions>>
    /\ UNCHANGED <<engineVars, routerVars>>

\* the message as the webhook stored it, with the contact of its sender
\* (sms_handler.py lines 121-137)
SenderContact ==
    [Row("contact", 0, 0) EXCEPT !.name = <<"S">>, !.phone = "p1"]

InitWorker ==
    /\ EngineIdle
    /\ RouterIdle
    /\ message = [NewMessage EXCEPT !.contact_id = SenderContact.id]
    /\ records = {SenderContact}
    /\ extractions = 0
    /\ invocations = <<>>

NextWorker ==
    \/ Deliver
    \/ \E i \in DOMAIN invocations : Load(i)
    \/ \E i \in DOMAIN invocations : Extract(i)
    \/ \E i \in DOMAIN invocations : Commit(i)
    \/ \E i \in DOMAIN invocations : Kill(i)

SpecWorker == InitWorker /\ [][NextWorker]_vars

(***************************************************************************)
(* Properties of evaluate_conditions (checked under SpecEval).             *)
(***************************************************************************)
\* what the code's leaf evaluation gives for c, an exception counted as false
LeafHolds(c) == _evaluate_single_condition(c, context, hour) = "true"

LeafRaises(c) == _evaluate_single_condition(c, context, hour) = "raise"

\* c is a dict with neither "all" nor "any"
IsLeaf(c) == c.mapping /\ ~c.has_all /\ ~c.has_any

RECURSIVE TreeValue(_)
\* the boolean value of the condition tree c: AND over all, OR over any,
\* the leaf's own value at a leaf
TreeValue(c) ==
    IF ~c.mapping THEN FALSE
    ELSE IF c.has_all THEN \A j \in 1..Len(c.all) : TreeValue(c.all[j])
    ELSE IF c.has_any THEN \E j \in 1..Len(c.any) : TreeValue(c.any[j])
    ELSE LeafHolds(c)

RECURSIVE WellFormed(_)
\* c is a tree of dicts none of whose leaves raises
WellFormed(c) ==
    /\ c.mapping
    /\ IF c.has_all THEN \A j \in 1..Len(c.all) : WellFormed(c.all[j])
       ELSE IF c.has_any THEN \A j \in 1..Len(c.any) : WellFormed(c.any[j])
       ELSE ~LeafRaises(c)

\* C8: for every condition tree built from leaves, all and any,
\* evaluate_conditions returns the recursive boolean value of the tree: a
\* child that is itself a combinator is evaluated as a combinator.
C8_NestedCombinators ==
    (eval_result.done /\ WellFormed(conditions))
        => (eval_result.value <=> TreeValue(conditions))

\* C9: a condition carrying "all" is the AND over its all list whatever else
\* it carries ({all: []} is true); one carrying "any" and no "all" is the OR
\* over its any list whatever leaf keys it carries ({any: []} is false).
C9_CombinatorPrecedence ==
    (eval_result.done /\ conditions.mapping) =>
        /\ conditions.has_all =>
              (eval_result.value <=>
                  \A j \in 1..Len(conditions.all) : LeafHolds(conditions.all[j]))
        /\ (~conditions.has_all /\ conditions.has_any) =>
              /\ eval_result.value =>
                    \E j \in 1..Len(conditions.any) : LeafHolds(conditions.any[j])
              /\ (\E j \in 1..Len(conditions.any) :
                      /\ LeafHolds(conditions.any[j])
                      /\ \A h \in 1..(j - 1) : ~LeafRaises(conditions.any[h]))
                    => eval_result.value

\* C9 witness: {all: [], any: [], ...} was evaluated, to true
C9_Witness ==
    /\ eval_result.done
    /\ conditions.has_all /\ conditions.all = <<>>
    /\ conditions.has_any /\ conditions.any = <<>>
    /\ eval_result.value

\* the field of leaf c does not resolve in the context: a key is missing at
\* some level, or an intermediate value is no dict
Unresolved(c) ==
    LET keys == Split(GetOr(c.field, Str(K_content)).s)
    IN  \E n \in 1..Len(keys) :
            LET parent == Walk(context, SubSeq(keys, 1, n - 1))
            IN  parent.k # "dict" \/ keys[n] \notin DOMAIN parent.m

TypeOf(c) == IF c.type = "absent" THEN "contains" ELSE c.type

\* C10: evaluate_conditions never raises, and a leaf is false whenever its
\* field does not resolve (whatever its type, time_range included), its regex
\* pattern is malformed, or an operand of greater_than / less_than is not
\* numeric.
C10_FailClosed ==
    eval_result.done =>
        /\ ~eval_result.raised
        /\ (IsLeaf(conditions) /\ GetOr(conditions.field, Str(K_content)).k = "str") =>
              /\ Unresolved(conditions) => ~eval_result.value
              /\ ( /\ TypeOf(conditions) = "regex"
                   /\ conditions.value.k = "str"
                   /\ RegexMalformed(conditions.value.s) ) => ~eval_result.value
              /\ ( /\ TypeOf(conditions) \in {"greater_than", "less_than"}
                   /\ \/ ~ToNumber(GetOr(conditions.value, Str(<<>>))).ok
                      \/ ~ToNumber(_get_nested_value(context,
                             GetOr(conditions.field, Str(K_content)).s)).ok )
                    => ~eval_result.value

\* C10 witness: a time_range leaf whose hours hold and whose field does not
\* resolve was evaluated
C10_Witness ==
    /\ eval_result.done
    /\ IsLeaf(conditions)
    /\ conditions.type = "time_range"
    /\ conditions.field.k = "str"
    /\ Unresolved(conditions)
    /\ conditions.start_hour = Num(9) /\ conditions.end_hour = Absent
    /\ hour = 12

(***************************************************************************)
(* Properties of execute_workflow (checked under Spec).                    *)
(***************************************************************************)
Entries == execution_log.actions_executed

\* the indices in a history of calls
Called(calls) == { calls[p] : p \in DOMAIN calls }

\* the run passes the enabled test and the conditions, and reaches the loop
ReachesActions ==
    /\ ~Disabled(workflow)
    /\ Truthy(workflow) =>
          evaluate_conditions(workflow.conditions, context, hour).value

\* the run ended in the handler of line 187 at action entry k, which is no dict
AbortedAt(k) ==
    /\ outcome = "returned"
    /\ k = Len(Entries) + 1
    /\ k <= Len(workflow.actions)
    /\ ~workflow.actions[k].mapping
    /\ execution_log.error.exc.cls = "AttributeError"
    /\ execution_log.error.msg = ""

\* action entry k failed and its continue_on_error is not true
NonToleratedFailure(k) ==
    /\ workflow.actions[k].continue_on_error # "true"
    /\ \/ k <= Len(Entries) /\ ~Entries[k].success
       \/ AbortedAt(k)

\* C1: when action i raises and its continue_on_error is not true, the log
\* has exactly the entries 0..i, the last one a failure; success is false,
\* error names index i; no handler and no collaborator of a later action is
\* ever called.
C1_FailStop ==
    \A k \in 1..Len(Entries) :
        (~Entries[k].success /\ workflow.actions[k].continue_on_error # "true") =>
            /\ Len(Entries) = k
            /\ outcome = "returned"
            /\ execution_log.success = FALSE
            /\ execution_log.error = LogError("Action failed", k - 1, Entries[k].error)
            /\ \A j \in Called(handler_calls) \cup Called(collaborator_calls) : j <= k - 1

\* C1 witness: a run of two actions ended at its first, which raised
C1_Witness ==
    /\ outcome = "returned"
    /\ Len(workflow.actions) = 2
    /\ workflow.actions[2].mapping
    /\ Len(Entries) = 1
    /\ ~Entries[1].success
    /\ workflow.actions[1].continue_on_error = "absent"

\* C2 as claimed: after a tolerated failure every later action is attempted,
\* and at the end of any run success is true iff no action failed whose
\* continue_on_error was not true.
C2_Original ==
    outcome = "returned" =>
        /\ \A k \in 1..Len(Entries) :
              (~Entries[k].success /\ workflow.actions[k].continue_on_error = "true")
                  => Len(Entries) = Len(workflow.actions)
        /\ execution_log.success <=>
              ~\E k \in 1..Len(workflow.actions) : NonToleratedFailure(k)

\* C2 amended: a tolerated failure is recorded and the run goes on with the
\* next action, success and error untouched; at the end of a run that reached
\* its actions, success is true iff no action failed whose continue_on_error
\* was not true.
C2_ToleratedFailure ==
    /\ \A k \in 1..Len(Entries) :
          (~Entries[k].success /\ workflow.actions[k].continue_on_error = "true") =>
              \/ Len(Entries) > k
              \/ k = Len(workflow.actions)
              \/ pc \in {"loop", "await"} /\ idx = k
              \/ AbortedAt(k + 1)
    /\ (outcome = "running" /\ pc \in {"loop", "await"}) =>
          /\ execution_log.success
          /\ execution_log.error = NoError
    /\ (outcome = "returned" /\ ReachesActions) =>
          /\ execution_log.success <=>
                ~\E k \in 1..Len(workflow.actions) : NonToleratedFailure(k)
          /\ execution_log.success => execution_log.error = NoError

\* C2 witness: the first of two actions failed and was tolerated, the second
\* ran, and the run ended a success
C2_Witness ==
    /\ outcome = "returned"
    /\ Len(Entries) = 2
    /\ ~Entries[1].success
    /\ workflow.actions[1].continue_on_error = "true"
    /\ Entries[2].success
    /\ execution_log.success
    /\ execution_log.error = NoError

\* C3: a run of a workflow whose enabled flag is false returns success=false,
\* error "Workflow is disabled" and no entries; it evaluates no conditions and
\* calls no handler and no collaborator.
C3_DisabledRun ==
    (workflow.enabled = "false" /\ outcome # "not_called") =>
        /\ outcome = "returned"
        /\ execution_log.success = FALSE
        /\ execution_log.error = LogError("Workflow is disabled", -1, NoExc)
        /\ Entries = <<>>
        /\ evaluations = 0
        /\ handler_calls = <<>>
        /\ collaborator_calls = <<>>

\* C3 witness: a disabled workflow with conditions and actions was run
C3_Witness ==
    /\ workflow.enabled = "false"
    /\ Truthy(workflow)
    /\ Len(workflow.actions) = 2
    /\ outcome = "returned"

\* C4: an enabled workflow whose non-empty conditions evaluate to false
\* returns success=false, error "Conditions not met" and no entries, and calls
\* no handler; with conditions absent or empty nothing is evaluated and the
\* run goes on to its actions.
C4_ConditionsGate ==
    /\ ( /\ ~Disabled(workflow)
         /\ Truthy(workflow)
         /\ ~evaluate_conditions(workflow.conditions, context, hour).value
         /\ pc \notin {"idle", "conditions"} ) =>
            /\ outcome = "returned"
            /\ execution_log.success = FALSE
            /\ execution_log.error = LogError("Conditions not met", -1, NoExc)
            /\ Entries = <<>>
            /\ evaluations = 1
            /\ handler_calls = <<>>
            /\ collaborator_calls = <<>>
    /\ ( /\ ~Disabled(workflow)
         /\ ~workflow.has_conditions \/ workflow.conditions = EmptyConditions ) =>
            /\ evaluations = 0
            /\ execution_log.error.msg # "Conditions not met"
            /\ (pc \notin {"idle", "conditions"} /\ Len(workflow.actions) > 0) =>
                  \/ pc \in {"loop", "await"}
                  \/ Len(Entries) > 0
                  \/ AbortedAt(1)

\* C4 witness: conditions that do not hold ended the run of a workflow that
\* has actions
C4_Witness ==
    /\ outcome = "returned"
    /\ execution_log.error.msg = "Conditions not met"
    /\ workflow.conditions.mapping
    /\ Len(workflow.actions) = 1

\* C5: no exception reaches the caller of execute_workflow; a run that is
\* under way can take a step, and a run that ended returned a log carrying
\* workflow_id, started_at, success, error and actions_executed.
C5_NoEscape ==
    /\ outcome # "raised"
    /\ outcome = "running" => ENABLED Next
    /\ pc = "done" => outcome = "returned"
    /\ outcome = "returned" =>
          /\ execution_log.created
          /\ execution_log.success \in BOOLEAN
          /\ execution_log.success = (execution_log.error = NoError)
          /\ Len(Entries) <= Len(workflow.actions)

\* C5 witness: an action entry that is no dict was reached after an action
\* that had been logged, and the run returned its log
C5_Witness ==
    /\ outcome = "returned"
    /\ Len(Entries) = 1
    /\ AbortedAt(2)
    /\ execution_log.completed_at

\* C6: the k-th entry of actions_executed is that of action k (no gap, no
\* reordering); at most one handler is under way, that of the action the loop
\* is at, and every earlier action has been logged before it is called.
C6_DeclaredOrder ==
    /\ \A k \in 1..Len(Entries) :
          /\ Entries[k].action_index = k - 1
          /\ Entries[k].action_type = workflow.actions[k].type
    /\ Cardinality(in_handler) <= 1
    /\ \A j \in in_handler : j = idx /\ j = Len(Entries) /\ pc = "await"
    /\ \A p, q \in DOMAIN handler_calls : p < q => handler_calls[p] < handler_calls[q]
    /\ \A j \in Called(handler_calls) : j <= Len(Entries)

\* C6 witness: the handler of the second action waits for its collaborator
\* after the first action was logged
C6_Witness ==
    /\ in_handler = {1}
    /\ Len(Entries) = 1
    /\ handler_calls = <<0, 1>>

\* C7: an action of an unknown type reaches no handler and no collaborator;
\* its entry is a failure whose error names the type, and continue_on_error
\* decides as for any failure whether the run ends there or goes on.
C7_UnknownType ==
    \A k \in 1..Len(workflow.actions) :
        LET a == workflow.actions[k]
            e == Exc("ValueError", "Unknown action type", a.type)
        IN  (a.mapping /\ a.type \notin WorkflowAction) =>
                /\ (k - 1) \notin Called(handler_calls) \cup Called(collaborator_calls)
                /\ Len(Entries) >= k =>
                      /\ Entries[k].success = FALSE
                      /\ Entries[k].error = e
                      /\ a.continue_on_error # "true" =>
                            /\ Len(Entries) = k
                            /\ outcome = "returned"
                            /\ execution_log.error = LogError("Action failed", k - 1, e)
                      /\ (a.continue_on_error = "true" /\ Len(Entries) = k) =>
                            /\ execution_log.error # LogError("Action failed", k - 1, e)
                            /\ \/ k = Len(workflow.actions)
                               \/ pc \in {"loop", "await"} /\ idx = k
                               \/ AbortedAt(k + 1)

\* C7 witness: an action of unknown type was logged and tolerated, and the
\* action after it ran
C7_Witness ==
    /\ outcome = "returned"
    /\ Len(Entries) = 2
    /\ workflow.actions[1].type = "bogus"
    /\ workflow.actions[1].continue_on_error = "true"
    /\ Entries[2].success

\* C23: the log of every run that returned has completed_at, however the
\* run ended; only a run that has not returned has a log without it.
C23_CompletedAt ==
    (execution_log.created /\ ~execution_log.completed_at) => outcome # "returned"

\* success is false exactly when error is set
SuccessIffError(log) == (~log.success) <=> (log.error # NoError)

\* C24: at every step of a run success is false exactly when error is set,
\* and once success is false no step changes success or error or appends an
\* entry to actions_executed.
C24_SuccessWithError ==
    [][ /\ SuccessIffError(execution_log')
        /\ ~execution_log.success =>
               /\ ~execution_log'.success
               /\ execution_log'.error = execution_log.error
               /\ execution_log'.actions_executed = execution_log.actions_executed
      ]_vars

\* C24 witness: the first of two actions failed and ended the run: success
\* is false, error is set, and the second action has no entry
C24_Witness ==
    /\ outcome = "returned"
    /\ Len(workflow.actions) = 2
    /\ Len(Entries) = 1
    /\ ~Entries[1].success
    /\ ~execution_log.success
    /\ execution_log.error # NoError

\* the entries appended for action i
EntriesFor(i) == { k \in 1..Len(Entries) : Entries[k].action_index = i }

\* C25: when the collaborator of a send_email or webhook action has failed,
\* the entry of that action has success false, and the run has ended with
\* success false unless the action's continue_on_error is true.
C25_CollaboratorFailure ==
    \A p \in DOMAIN hows :
        LET i == collaborator_calls[p]
            action == workflow.actions[i + 1]
        IN  (action.type \in {"send_email", "webhook"} /\ hows[p] # "return") =>
                \A k \in EntriesFor(i) :
                    /\ ~Entries[k].success
                    /\ StopOnError(action) =>
                           (outcome = "returned" /\ ~execution_log.success)

(***************************************************************************)
(* Properties of substitute_templates (checked under SpecTpl).             *)
(***************************************************************************)
\* every key of the path is found, each in a dict
PathResolves(ctx, path) ==
    LET keys == Split(path)
    IN  \A n \in 1..Len(keys) :
            LET parent == Walk(ctx, SubSeq(keys, 1, n - 1))
            IN  parent.k = "dict" /\ keys[n] \in DOMAIN parent.m

RECURSIVE AsClaimed(_)
\* the text the pieces ps give when each placeholder whose path resolves is
\* replaced by the string form of its value and every other piece is kept
AsClaimed(ps) ==
    IF ps = <<>> THEN <<>>
    ELSE LET part == Head(ps)
         IN  (IF part.hole /\ PathResolves(context, part.text)
              THEN PyStr(_get_nested_value(context, part.text))
              ELSE Written(part)) \o AsClaimed(Tail(ps))

\* the placeholder is one the scan from the left finds: no "{" stands
\* directly before it
Found(ps, j) == j = 1 \/ ps[j - 1].hole \/ ps[j - 1].text[Len(ps[j - 1].text)] # Open

RECURSIVE AsAmended(_, _)
\* the same, but a placeholder is kept as well when its value is None or a
\* "{" stands directly before it
AsAmended(ps, j) ==
    IF j > Len(ps) THEN <<>>
    ELSE (IF /\ ps[j].hole
             /\ Found(ps, j)
             /\ PathResolves(context, ps[j].text)
             /\ _get_nested_value(context, ps[j].text) # None
          THEN PyStr(_get_nested_value(context, ps[j].text))
          ELSE Written(ps[j])) \o AsAmended(ps, j + 1)

\* C11 as claimed: every placeholder whose path resolves is replaced by the
\* string form of its value and every other one is left as written, in a str,
\* in the values of dicts and the elements of lists; other scalars are
\* returned unchanged.
C11_Original ==
    rendered.done =>
        \A shape \in Shapes :
            template = Shaped(shape, Str(TextOf(parts)))
                => rendered.value = Shaped(shape, Str(AsClaimed(parts)))

\* C11 amended: placeholders are found from the left; one whose path resolves
\* to a value other than None is replaced by the string form of the value;
\* every other one (path unresolved, value None, or a "{" directly before it)
\* and all other text is left as written; the same in the values of dicts
\* and the elements of lists; other scalars are returned unchanged.
C11_Templates ==
    rendered.done =>
        \A shape \in Shapes :
            template = Shaped(shape, Str(TextOf(parts)))
                => rendered.value = Shaped(shape, Str(AsAmended(parts, 1)))

\* C11 witness: a template with a placeholder that resolves and one that
\* does not, held in a list in a dict, was substituted
C11_Witness ==
    /\ rendered.done
    /\ Len(parts) = 2
    /\ parts[1] = Hole(Dotted(K_contact, K_phone), TRUE)
    /\ parts[2] = Hole(Dotted(K_contact, K_nokey), FALSE)
    /\ template.k = "dict" /\ K_payload \in DOMAIN template.m
    /\ template.m[K_payload].k = "list"
    /\ PathResolves(context, parts[1].text)
    /\ rendered.value # template

\* text s holds a placeholder the scan finds
HasPlaceholder(s) == \E i \in 1..Len(s) : MatchAt(s, i) # 0

\* piece j of the template is a placeholder that is replaced by a str
ReplacedByStr(j) ==
    /\ parts[j].hole
    /\ Found(parts, j)
    /\ _get_nested_value(context, parts[j].text).k = "str"

\* C28: the text put in for a placeholder is in the result as it is in the
\* context, placeholders it may hold included, and a str without a
\* placeholder is returned as it is.
C28_SinglePass ==
    (rendered.done /\ template = Str(TextOf(parts))) =>
        /\ \A j \in DOMAIN parts :
               ReplacedByStr(j) =>
                   Contains(rendered.value.s, _get_nested_value(context, parts[j].text).s)
        /\ ~HasPlaceholder(template.s) => rendered.value = template

\* C28 witness: {{content}} was substituted in a context whose content is
\* the text {{contact.phone}}, and contact.phone resolves
C28_Witness ==
    /\ rendered.done
    /\ template = Str(TextOf(parts))
    /\ \E j \in DOMAIN parts :
           /\ ReplacedByStr(j)
           /\ parts[j].text = K_content
           /\ HasPlaceholder(_get_nested_value(context, K_content).s)
    /\ PathResolves(context, Dotted(K_contact, K_phone))

(***************************************************************************)
(* Properties of the action handlers (checked under SpecActions).          *)
(***************************************************************************)
\* C12: in every state of a run the context and the action entries of the
\* workflow are what the caller passed: no template is substituted in the
\* workflow's own actions and nothing is written into the context, whatever
\* actions returned or raised.
C12_ReadOnly ==
    /\ context = given.context
    /\ workflow.actions = given.workflow.actions

\* C12 witness: a run ended whose send_sms went to the number a template of
\* the action resolved to, and whose second action created a record
C12_Witness ==
    /\ outcome = "returned"
    /\ Len(Entries) = 2
    /\ workflow.actions[1].type = "send_sms"
    /\ workflow.actions[1].to_number = Str(T_contact_phone)
    /\ Len(sent) = 2
    /\ sent[1].to = Str(S_ab)
    /\ workflow.actions[2].type \in CreateActions

\* context.get(key)
Field(ctx, key) == IF key \in DOMAIN ctx.m THEN ctx.m[key] ELSE None

\* the destination the priority of the claim gives the processed action a,
\* None when none of the three yields one
Destination(a) ==
    LET contact == Field(context, K_contact)
    IN  IF IsTruthy(a.to_number) THEN a.to_number
        ELSE IF IsTruthy(Field(context, K_sender_phone))
        THEN Field(context, K_sender_phone)
        ELSE IF contact.k = "dict" /\ IsTruthy(Field(contact, K_phone))
        THEN Field(contact, K_phone)
        ELSE None

\* C13: every call of the SMS collaborator carries the destination the
\* priority gives: the action's to_number, else context.sender_phone, else
\* context.contact.phone; an action for which none of them yields a
\* destination fails without a call of the collaborator.
C13_SmsDestination ==
    /\ \A p \in DOMAIN sent :
          sent[p].type = "send_sms" =>
              /\ sent[p].to = Destination(Templated(workflow.actions[sent[p].index + 1],
                                                    context))
              /\ IsTruthy(sent[p].to)
    /\ \A k \in 1..Len(workflow.actions) :
          ( /\ workflow.actions[k].type = "send_sms"
            /\ Destination(Templated(workflow.actions[k], context)) = None ) =>
              /\ (k - 1) \notin Called(collaborator_calls)
              /\ Len(Entries) >= k => ~Entries[k].success

\* C13 witness: an SMS went to context.sender_phone although the contact has
\* another phone, the action naming no number; and an action without any
\* destination failed
C13_Witness ==
    /\ Len(Entries) = 2
    /\ workflow.actions[1].type = "send_sms"
    /\ workflow.actions[1].to_number = Str(<<>>)
    /\ sent # <<>>
    /\ sent[1].to = Str(<<"1", "2">>)
    /\ Field(context, K_contact) = Dict(K_phone :> Str(S_ab))
    /\ workflow.actions[2].type = "send_sms"

\* C14: the entry of an update_contact action is not an ordinary success: it
\* is a failure, or its result says "not implemented".
C14_NotImplemented ==
    \A k \in 1..Len(Entries) :
        Entries[k].action_type = "update_contact" =>
            \/ ~Entries[k].success
            \/ Entries[k].result.tag = "not_implemented"

\* C20: an Event made from event_data with a start_time and no end_time ends
\* one hour after it starts, hence after it starts.
C20_DefaultEnd ==
    \A p \in DOMAIN sent :
        LET a == workflow.actions[sent[p].index + 1]
        IN  ( /\ sent[p].type = "create_event"
              /\ IsTruthy(a.start_time)
              /\ ~IsTruthy(a.end_time) ) =>
                /\ sent[p].end_time = sent[p].start_time + 1
                /\ sent[p].end_time > sent[p].start_time

(***************************************************************************)
(* Properties of runs on one event loop (checked under SpecRuns).          *)
(***************************************************************************)
AllRuns == DOMAIN parked \cup {run}

\* the locals of run r, executing or not
RunState(r) == IF r = run THEN Locals ELSE parked[r]

EntriesOf(r) == RunState(r).execution_log.actions_executed

ActionsOf(r) == RunState(r).workflow.actions

\* a run other than the executing one has still to begin or to go on
OtherRunWaits == \E r \in DOMAIN parked : parked[r].pc # "done"

\* C15: while the executing run is suspended in a delay, the loop can go
\* over to any other run that has not ended; the entry of a delay is a
\* success whose result carries the configured seconds (1 when none is
\* configured), and the run goes on with the action after the delay.
C15_DelaySuspends ==
    /\ (pc = "await" /\ RunActions[idx + 1].type = "delay" /\ OtherRunWaits)
          => ENABLED Switch
    /\ \A r \in AllRuns :
          \A k \in 1..Len(EntriesOf(r)) :
              ActionsOf(r)[k].type = "delay" =>
                  /\ EntriesOf(r)[k].success
                  /\ EntriesOf(r)[k].result =
                        Result("delayed",
                               IF ActionsOf(r)[k].delay_seconds = Absent THEN 1
                               ELSE ActionsOf(r)[k].delay_seconds.n)
                  /\ (k = Len(EntriesOf(r)) /\ RunState(r).outcome = "running") =>
                        /\ RunState(r).pc \in {"loop", "await"}
                        /\ RunState(r).idx = k

\* C15 witness: a run is suspended in its delay of 3 seconds while another
\* run, begun after it, has executed its two actions and ended
C15_Witness ==
    /\ \E r \in DOMAIN parked :
          /\ parked[r].pc = "await"
          /\ parked[r].workflow.actions[parked[r].idx + 1].delay_seconds = Num(3)
    /\ outcome = "returned"
    /\ Len(Entries) = 2

\* C16: while the executing run waits for the external call of a send_email,
\* webhook or record-creating action, the loop can go over to any other run
\* that has not ended.  (send_sms raises before any request is made.)
C16_NonBlocking ==
    ( /\ pc = "await"
      /\ RunActions[idx + 1].type \in {"send_email", "webhook"} \cup CreateActions
      /\ OtherRunWaits ) => ENABLED Switch

\* the place of action k of run r among the collaborator calls of the run
OwnPlace(r, k) ==
    CHOOSE p \in DOMAIN RunState(r).collaborator_calls :
        RunState(r).collaborator_calls[p] = k - 1

\* what the run's own action k and the end of its own collaborator call
\* make of the action: it returned
OwnSuccess(r, k) ==
    LET a == ActionsOf(r)[k]
    IN  CASE a.type \notin WorkflowAction -> FALSE
          [] a.type = "update_contact" -> TRUE
          [] OTHER -> /\ (k - 1) \in Called(RunState(r).collaborator_calls)
                      /\ OwnPlace(r, k) <= Len(RunState(r).hows)
                      /\ RunState(r).hows[OwnPlace(r, k)] # "raise"

\* C17: the log a run returned has the entries of the run's own actions, one
\* for each action up to the end of the list or to a failure that is not
\* tolerated, in the order of the list; each entry's success is what the
\* run's own action made of it, and the log's success what its own entries
\* give, however the runs were interleaved.
C17_NoSharedState ==
    \A r \in AllRuns :
        RunState(r).outcome = "returned" =>
            /\ Len(EntriesOf(r)) <= Len(ActionsOf(r))
            /\ \A k \in 1..Len(EntriesOf(r)) :
                  /\ EntriesOf(r)[k].action_index = k - 1
                  /\ EntriesOf(r)[k].action_type = ActionsOf(r)[k].type
                  /\ EntriesOf(r)[k].success <=> OwnSuccess(r, k)
            /\ \/ Len(EntriesOf(r)) = Len(ActionsOf(r))
               \/ /\ Len(EntriesOf(r)) >= 1
                  /\ ~EntriesOf(r)[Len(EntriesOf(r))].success
                  /\ ActionsOf(r)[Len(EntriesOf(r))].continue_on_error # "true"
            /\ RunState(r).execution_log.success <=>
                  \A k \in 1..Len(EntriesOf(r)) :
                      \/ EntriesOf(r)[k].success
                      \/ ActionsOf(r)[k].continue_on_error = "true"

\* C17 witness: two runs of different workflows ended whose collaborator
\* calls were made in turn: one of the first, one of the second, one of the
\* first
C17_Witness ==
    /\ \A r \in AllRuns : RunState(r).outcome = "returned"
    /\ Len(sent) = 3
    /\ sent[1].run = 1 /\ sent[2].run = 2 /\ sent[3].run = 1
    /\ ActionsOf(1) # ActionsOf(2)

\* action k of run r is one whose handler calls a collaborator
CallsOut(r, k) == ActionsOf(r)[k].type \in {"delay", "send_email", "webhook"}

\* C19: every run makes every collaborator call of its actions itself: for
\* each entry of an action that calls a collaborator there is exactly one
\* call of that run and action, whatever calls earlier runs made; and two
\* runs of the same workflow and context whose collaborator calls ended the
\* same way returned the same log.
C19_NoDedup ==
    /\ \A r \in AllRuns :
          \A k \in 1..Len(EntriesOf(r)) :
              CallsOut(r, k) =>
                  Cardinality({ p \in DOMAIN sent :
                                  sent[p].run = r /\ sent[p].index = k - 1 }) = 1
    /\ \A r, q \in AllRuns :
          ( /\ RunState(r).outcome = "returned"
            /\ RunState(q).outcome = "returned"
            /\ RunState(r).given = RunState(q).given
            /\ RunState(r).hows = RunState(q).hows ) =>
              RunState(r).execution_log = RunState(q).execution_log

\* C19 witness: two runs of one workflow and context ended, the second after
\* the first, and the webhook was requested twice
C19_Witness ==
    /\ \A r \in AllRuns : RunState(r).outcome = "returned"
    /\ RunState(1).given = RunState(2).given
    /\ Len(sent) = 2
    /\ sent[1].type = "webhook" /\ sent[1].run = 1
    /\ sent[2].type = "webhook" /\ sent[2].run = 2
    /\ RunState(1).hows = RunState(2).hows

(***************************************************************************)
(* Properties of a run while its workflow is updated (checked under        *)
(* SpecUpdate).                                                            *)
(***************************************************************************)
\* C18: whatever is written to the workflows table while the run is
\* suspended, the entries of the run are those of the actions the workflow
\* had when the run began: the run is not ended by the change (disabled,
\* conditions, fewer actions) and not extended by it (more actions).
C18_Snapshot ==
    /\ Len(Entries) <= Len(given.workflow.actions)
    /\ \A k \in 1..Len(Entries) :
          Entries[k].action_type = given.workflow.actions[k].type
    /\ outcome = "returned" =>
          /\ execution_log.error.msg \notin {"Workflow is disabled", "Conditions not met"}
          /\ \/ Len(Entries) = Len(given.workflow.actions)
             \/ /\ Len(Entries) >= 1
                /\ ~Entries[Len(Entries)].success
                /\ given.workflow.actions[Len(Entries)].continue_on_error # "true"

\* C18 witness: the actions of the workflow were replaced while the run was
\* suspended in the first of its two actions, and the run ended with the
\* entries of those two
C18_Witness ==
    /\ outcome = "returned"
    /\ stored.actions # given.workflow.actions
    /\ Len(stored.actions) = 4
    /\ Len(given.workflow.actions) = 2
    /\ Len(Entries) = 2
    /\ Len(sent) = 1 /\ sent[1].index = 0

(***************************************************************************)
(* Properties of the workflows router (checked under SpecApi).             *)
(***************************************************************************)
\* the last request was a create or an update
Writes == request.op \in {"create", "update"}

\* the body of the last request, its trigger set aside, is one its model
\* accepts
ValidButTrigger ==
    LET data == [request.data EXCEPT !.trigger = "message_received"]
    IN  IF request.op = "create" THEN ValidCreate(data) ELSE ValidUpdate(data)

\* the triggers of the rows of the table
StoredTriggers == { workflows_table[i].trigger : i \in DOMAIN workflows_table }

\* C21: a create or an update that gives a trigger is refused for it (422)
\* exactly when the trigger is none of message_received, contact_created,
\* event_created, time_based, manual; and every row of the table has one of
\* these five.
C21_TriggerEnum ==
    /\ StoredTriggers \subseteq WorkflowTrigger
    /\ (Writes /\ request.data.trigger # "absent" /\ ValidButTrigger) =>
           (response.status = 422 <=> request.data.trigger \notin WorkflowTrigger)

\* every row of the table has at least one action, each a dict with a type
StoredActionsValid ==
    \A i \in DOMAIN workflows_table :
        /\ Len(workflows_table[i].actions) >= 1
        /\ \A j \in DOMAIN workflows_table[i].actions :
               /\ workflows_table[i].actions[j].mapping
               /\ workflows_table[i].actions[j].type # "absent"

\* the last request was a create or an update refused with 400 for an action
\* without a type
RefusedForType ==
    /\ Writes
    /\ response.status = 400
    /\ request.data.has_actions
    /\ SomeActionWithoutType(request.data.actions)

\* C22: after every request the rows of the table have a non-empty list of
\* actions that are all dicts with a type, and a create or an update refused
\* with 400 for an action without a type leaves both tables as they were,
\* whatever else the request carried.
C22_ActionsValid ==
    [][ /\ StoredActionsValid'
        /\ RefusedForType' =>
               /\ workflows_table' = workflows_table
               /\ workflow_executions' = workflow_executions ]_vars

\* C22 witness: an update of a row of the user's own that carries a name, a
\* trigger and an action without a type was refused with 400
C22_Witness ==
    /\ RefusedForType
    /\ request.op = "update"
    /\ FindWorkflow(Tables, request.workflow_id, request.user) # {}
    /\ request.data.name \notin {"absent", workflows_table[request.workflow_id].name}
    /\ request.data.trigger # "absent"

\* request req names a row that another user owns in table `before`
ForeignIn(req, before) ==
    /\ req.op \in {"get", "update", "delete", "toggle", "test", "executions"}
    /\ req.workflow_id \in DOMAIN before
    /\ before[req.workflow_id].user_id # req.user

\* request req is a toggle by the owner of a row of table `before`
ToggledIn(req, before) ==
    /\ req.op = "toggle"
    /\ req.workflow_id \in DOMAIN before
    /\ before[req.workflow_id].user_id = req.user

\* row `after` is row `before` with enabled flipped, updated_at aside
Flipped(before, after) ==
    /\ after.enabled # before.enabled
    /\ after.enabled \in {"true", "false"}
    /\ [after EXCEPT !.enabled = before.enabled, !.updated_at = before.updated_at]
           = before

\* the owner's toggle of request req: answered 200 with the new value,
\* enabled flipped in that row, nothing else changed in it but updated_at,
\* the other rows and the executions as they were
OwnerToggle ==
    ToggledIn(request', workflows_table) =>
        /\ response'.status = 200
        /\ DOMAIN workflows_table' = DOMAIN workflows_table
        /\ Flipped(workflows_table[request'.workflow_id],
                   workflows_table'[request'.workflow_id])
        /\ response'.body.enabled = workflows_table'[request'.workflow_id].enabled
        /\ \A i \in DOMAIN workflows_table \ {request'.workflow_id} :
               workflows_table'[i] = workflows_table[i]
        /\ workflow_executions' = workflow_executions

RefusedBody(req) == req.op = "update" /\ ~ValidUpdate(req.data)

Makers == { r.by : r \in records } \ {0}

\* C26: for one message extract_message_data is called at most once, the
\* rows made for it are made by one invocation at most, and an invocation
\* that returned already_processed has added and updated nothing.
C26_AtMostOnce ==
    /\ extractions <= 1
    /\ Cardinality(Makers) <= 1
    /\ \A i \in DOMAIN invocations :
           invocations[i].result = "already_processed" =>
               /\ invocations[i].pending = {}
               /\ invocations[i].touched = {}

\* invocation i has committed
Completed(i) == invocations[i].pc = "done" /\ invocations[i].result = "completed"

\* the ids of the rows of the tables
StoredIds == { r.id : r \in records }

\* C27: the rows an invocation built are in the tables exactly when it has
\* committed, and then all of them are, together with processed=true; an
\* invocation that raised or was lost has left no row and no update, and
\* the message is processed exactly when some invocation has committed.
C27_AllOrNothing ==
    /\ \A r \in records :
           /\ r.by # 0 => Completed(r.by)
           /\ r.last_contact # 0 => Completed(r.last_contact)
    /\ \A i \in DOMAIN invocations :
           Completed(i) =>
               /\ message.processed
               /\ { r.id : r \in invocations[i].pending } \subseteq StoredIds
    /\ message.processed <=> \E i \in DOMAIN invocations : Completed(i)
    /\ message.has_extracted_data = message.processed

\* C27 witness: an invocation raised after it had added rows to its
\* session, and the message is not processed
C27_Witness ==
    \E i \in DOMAIN invocations :
        /\ invocations[i].pc = "raised"
        /\ invocations[i].pending # {}
        /\ ~message.processed

\* C29: every event create_event has built ends after it starts, as the
\* events table demands.
C29_EventTimeOrder ==
    \A i \in DOMAIN invocations :
        \A r \in invocations[i].pending : CheckEventTimeOrder(r)

====
